---- MODULE Spec2Model ----
(***************************************************************************)
(* Order-fulfilment core of the marketplace: the shipping-rate arithmetic  *)
(* of checkout summary and place-order, the cart, the inventory and the    *)
(* multi-statement order commit (src/realtime_worker.js), and the seller   *)
(* stock and soft-delete operations (src/catalog_worker.js).               *)
(***************************************************************************)
EXTENDS Integers, Sequences, FiniteSets, Bags, TLC

(***************************************************************************)
(* Bounds of the model.                                                    *)
(***************************************************************************)
MaxMethods == 3
MaxStock == 2
MaxQty == 2
MaxOrders == 2

(***************************************************************************)
(* Shipping-rate arithmetic.  Math.floor(x * 0.1) and Math.ceil(x * 1.6)   *)
(* are computed on IEEE doubles in the source; for the non-negative        *)
(* integers below 3 000 000 they agree with the integer forms used here.   *)
(***************************************************************************)
Min(a, b) == IF a <= b THEN a ELSE b

\* (m.speed || '').toLowerCase() on the speed strings of the model.
ToLowerCase(s) ==
  CASE s = "Express" -> "express"
    [] s = "EXPRESS" -> "express"
    [] s = "Standard" -> "standard"
    [] OTHER -> s

TenPercentCapPerCent(subtotal_cents) == subtotal_cents \div 100

\* const cap = Math.floor(subtotal_cents * 0.1)
TenPercentCap(subtotal_cents) == subtotal_cents \div 10

FreeThresholdCostStrict(m, subtotal_cents) ==
  IF \E f \in m.free_over_cents : subtotal_cents > f THEN 0 ELSE m.base_cents

\* let cost = Number(m.base_cents || 0);
\* if (m.free_over_cents != null && subtotal_cents >= Number(m.free_over_cents)) cost = 0
\* free_over_cents is {} for NULL and {f} for the threshold f.
FreeThresholdCost(m, subtotal_cents) ==
  IF \E f \in m.free_over_cents : subtotal_cents >= f THEN 0 ELSE m.base_cents

CapCostNoMin(cost, cap) == cost

\* if (cost > 0 && cap > 0) cost = Math.min(cost, cap)
CapCost(cost, cap) == IF cost > 0 /\ cap > 0 THEN Min(cost, cap) ELSE cost

ExpressSurchargeNoFlat(cost) == (16 * cost + 9) \div 10

\* Math.ceil(cost * 1.6) + 200
ExpressSurcharge(cost) == ((16 * cost + 9) \div 10) + 200

\* Array.prototype.find by lower-cased speed: the index of the first row of
\* that speed, 0 when there is none.
FindSpeed(rows, speed) ==
  LET hits == {i \in 1..Len(rows) : ToLowerCase(rows[i].speed) = speed}
  IN IF hits = {} THEN 0 ELSE CHOOSE i \in hits : \A j \in hits : i <= j

\* The shipping_options.map(...) of checkout summary: free threshold, then cap.
MapOptions(rows, subtotal_cents) ==
  [i \in 1..Len(rows) |->
     [id |-> rows[i].id,
      speed |-> rows[i].speed,
      cost_cents |-> CapCost(FreeThresholdCost(rows[i], subtotal_cents),
                             TenPercentCap(subtotal_cents))]]

\* The tie-break of checkout summary on the mapped options.
TieBreak(options) ==
  LET standard == FindSpeed(options, "standard")
      express == FindSpeed(options, "express")
  IN IF /\ Len(options) >= 2
        /\ standard # 0
        /\ express # 0
        /\ options[standard].cost_cents = options[express].cost_cents
        /\ options[express].cost_cents > 0
     THEN [options EXCEPT ![express].cost_cents = ExpressSurcharge(@)]
     ELSE options

\* shipping_options of GET /api/checkout/summary for the rows of the zone.
SummaryOptions(rows, subtotal_cents) == TieBreak(MapOptions(rows, subtotal_cents))

\* The "fallback surcharge" of place-order: the peer is the first standard
\* row of the zone; its cost is capped, the chosen method's is not yet.
\* altOk = FALSE is the peer query throwing, which the code ignores.
PeerSurcharge(method, zoneRows, subtotal_cents, shipping_cents, altOk) ==
  IF ToLowerCase(method.speed) = "express" /\ shipping_cents > 0 /\ altOk
  THEN LET peer == FindSpeed(zoneRows, "standard")
       IN IF peer = 0
          THEN shipping_cents
          ELSE LET peerCost == CapCost(FreeThresholdCost(zoneRows[peer], subtotal_cents),
                                       TenPercentCap(subtotal_cents))
               IN IF peerCost = shipping_cents /\ shipping_cents > 0
                  THEN ExpressSurcharge(shipping_cents)
                  ELSE shipping_cents
  ELSE shipping_cents

\* shipping_cents of POST /api/checkout/place-order: free threshold, peer
\* surcharge, then the cap.
PlaceOrderShipping(method, zoneRows, subtotal_cents, altOk) ==
  CapCost(PeerSurcharge(method, zoneRows, subtotal_cents,
                        FreeThresholdCost(method, subtotal_cents), altOk),
          TenPercentCap(subtotal_cents))

TotalCentsNoShipping(subtotal_cents, shipping_cents) == subtotal_cents

\* const tax_cents = 0; const total_cents = subtotal_cents + shipping_cents
TaxCents == 0
TotalCents(subtotal_cents, shipping_cents) == subtotal_cents + shipping_cents

\* items.reduce((sum, item) => sum + price_cents * qty, 0)
RECURSIVE SubtotalCents(_)
SubtotalCents(items) ==
  IF items = <<>> THEN 0
  ELSE items[1].price_cents * items[1].qty + SubtotalCents(Tail(items))

(***************************************************************************)
(* State.  The q-variables hold one rate computation: the cart lines and   *)
(* the active shipping rows of the buyer's zone as read, the options       *)
(* checkout summary returned and what place-order charged.                 *)
(***************************************************************************)
VARIABLES qItems, qRows, qpc, qOptions, qMethod, qAltOk, qShipping, qTotal

(***************************************************************************)
(* The store (tables products, inventory, cart_items, orders, order_items) *)
(* and the requests in flight: po[r] is a place-order request between two  *)
(* of its awaited statements, so the stock-update request, sd the          *)
(* soft-delete request; nextOrderId stands for crypto.randomUUID().        *)
(***************************************************************************)
VARIABLES products, inventory, cart_items, orders, order_items,
          po, so, sd, nextOrderId

quoteVars == <<qItems, qRows, qpc, qOptions, qMethod, qAltOk, qShipping, qTotal>>
storeVars == <<products, inventory, cart_items, orders, order_items,
               po, so, sd, nextOrderId>>

(***************************************************************************)
(* What leaves the workers: cartResp is the response of the last cart      *)
(* update, notifications the bag of requests sent to the realtime service  *)
(* (POST /internal/order-status), env the worker's bindings, sellerResp    *)
(* the response of the last order-status request of the seller routes.     *)
(***************************************************************************)
VARIABLES cartResp, notifications, env, sellerResp

edgeVars == <<cartResp, notifications, env, sellerResp>>
(***************************************************************************)
(* The address book of the auth worker: addresses is the table addresses   *)
(* (its id, owner and the two default flags; the encrypted columns and the *)
(* country, which no default logic reads, are left out), ar the address    *)
(* requests in flight and their responses.                                 *)
(***************************************************************************)
VARIABLES addresses, ar

addrVars == <<addresses, ar>>
(***************************************************************************)
(* The realtime worker's connection registry: userSockets is the Map from  *)
(* user id to the Set of that user's sockets (a Set iterates in insertion  *)
(* order, so a sequence without repetition; a user without entry is not in *)
(* the domain), sockets the life of every socket (who connected it and     *)
(* which events it has had), deliveries the messages sent to sockets and   *)
(* wsResp the response of the last POST /internal/order-status.            *)
(***************************************************************************)
VARIABLES userSockets, sockets, deliveries, wsResp

wsVars == <<userSockets, sockets, deliveries, wsResp>>
(***************************************************************************)
(* The product cache of the catalog worker: PRODUCT_CACHE is the KV        *)
(* binding (bound says whether the worker has it, kv the entries by key),  *)
(* tasks the KV writes handed to ctx.waitUntil and not yet done, pr the    *)
(* product read in flight and readResp the response of the last read.      *)
(***************************************************************************)
VARIABLES PRODUCT_CACHE, tasks, pr, readResp

cacheVars == <<PRODUCT_CACHE, tasks, pr, readResp>>
(***************************************************************************)
(* The users table of the auth worker (the role column) and the response   *)
(* of the last PUT /api/users/me.                                          *)
(***************************************************************************)
VARIABLES users, userResp

userVars == <<users, userResp>>
svcVars == <<wsVars, cacheVars, userVars>>
vars == <<quoteVars, storeVars, edgeVars, addrVars, svcVars>>

(***************************************************************************)
(* Fixed data of the store model: users, product rows, addresses and the   *)
(* shipping_methods table (the two seeded rows, one row of another zone    *)
(* and one inactive row).  No operation of the modelled workers writes these columns.      *)
(***************************************************************************)
Buyers == {"u1", "u2"}
Products == {"p1", "p2"}
Requests == {"r1", "r2"}

\* The session each place-order request carries (auth.user.id).
RequestUser(r) == IF r \in {"r1", "r3"} THEN "u1" ELSE "u2"

ProductRows ==
  [p \in Products |->
     IF p = "p1"
     THEN [seller_id |-> "s1", title |-> "t1", price_cents |-> 500]
     ELSE [seller_id |-> "s1", title |-> "t2", price_cents |-> 300]]

\* The products row of p as created: status 'active', the title and price
\* given at creation.
NewProduct(p) ==
  [status |-> "active", title |-> ProductRows[p].title,
   price_cents |-> ProductRows[p].price_cents]

\* The inventory row written with the product: the stock given, reserved 0.
NewInventory(p, stock) == [stock |-> stock, reserved |-> 0]

Addresses ==
  { [id |-> "a1", user_id |-> "u1", country |-> "in"],
    [id |-> "a2", user_id |-> "u2", country |-> "IN"] }

ShippingMethods ==
  << [id |-> "standard-IN", zone |-> "IN", speed |-> "normal", base_cents |-> 5000,
      free_over_cents |-> {200000}, active |-> 1],
     [id |-> "express-IN", zone |-> "IN", speed |-> "express", base_cents |-> 10000,
      free_over_cents |-> {}, active |-> 1],
     [id |-> "standard-US", zone |-> "US", speed |-> "standard", base_cents |-> 5000,
      free_over_cents |-> {}, active |-> 1],
     [id |-> "retired-IN", zone |-> "IN", speed |-> "standard", base_cents |-> 5000,
      free_over_cents |-> {}, active |-> 0] >>

\* (shippingAddress.country || 'IN').toUpperCase() on the countries of the model.
ZoneOf(country) ==
  CASE country = "" -> "IN"
    [] country = "in" -> "IN"
    [] country = "us" -> "US"
    [] OTHER -> country

\* SELECT ... FROM shipping_methods WHERE active = 1 AND zone = ?
ZoneRows(zone) ==
  SelectSeq(ShippingMethods, LAMBDA m : m.active = 1 /\ m.zone = zone)

\* SELECT ... FROM shipping_methods WHERE id = ? AND active = 1
MethodById(id) ==
  {ShippingMethods[i] : i \in {j \in 1..Len(ShippingMethods) :
                                 ShippingMethods[j].id = id /\ ShippingMethods[j].active = 1}}

AddressOfAnyUser(id, user_id) == {a \in Addresses : a.id = id}

\* SELECT id, country FROM addresses WHERE id = ? AND user_id = ?
AddressOf(id, user_id) == {a \in Addresses : a.id = id /\ a.user_id = user_id}

\* The errors a D1 statement throws, and String(err) of the catch blocks:
\* Error.prototype.toString gives name + ": " + message.
StorageErrors == { [name |-> "Error", message |-> "D1_ERROR: no such table: cart_items"] }
StringOfError(err) == err.name \o ": " \o err.message

NoResp == [status |-> 0, error |-> "", product_id |-> "", available |-> 0]
Resp(status, error) ==
  [status |-> status, error |-> error, product_id |-> "", available |-> 0]

IdleRequest ==
  [pc |-> "idle", user_id |-> "", items |-> <<>>, k |-> 0, orderId |-> 0,
   subtotal_cents |-> 0, shipping_cents |-> 0, total_cents |-> 0,
   shipping_address_id |-> "", billing_address_id |-> "",
   shipping_method_id |-> "", resp |-> NoResp]

\* A field a response does not carry is {}, a field with value v is {v}.
NoCartResp ==
  [status |-> 0, error |-> "", qty |-> {}, available |-> {}, current_qty |-> {},
   items |-> {}, subtotal_cents |-> {}]
CartError(status, error) ==
  [status |-> status, error |-> error, qty |-> {}, available |-> {}, current_qty |-> {},
   items |-> {}, subtotal_cents |-> {}]

(***************************************************************************)
(* Address book (POST /api/addresses, PUT /api/addresses and               *)
(* PUT /api/addresses/:id).  Each awaited statement is a step of its own:  *)
(* the UPDATE that clears the user's default-shipping flags, the one that  *)
(* clears the default-billing flags, and the INSERT or UPDATE of the row.  *)
(* A flag of the body is {} when absent, else {TRUE} or {FALSE}.           *)
(***************************************************************************)
AddressRequests == {"x1", "x2"}
AddressKinds == {"create", "update", "update_id"}

\* The flags of the bodies sent: <<is_default_shipping, is_default_billing>>.
FlagPairs == { <<{TRUE}, {}>>, <<{}, {TRUE}>>, <<{TRUE}, {TRUE}>>, <<{FALSE}, {FALSE}>> }

\* The id crypto.randomUUID() returns for a created address.
NewAddressIds == {"a3"}

IdleAddressRequest ==
  [pc |-> "idle", kind |-> "", user_id |-> "", id |-> "",
   is_default_shipping |-> {}, is_default_billing |-> {}, status |-> 0]

\* The addresses of the fixed data, none flagged as a default.
AddressBookInit ==
  /\ addresses = {[id |-> a.id, user_id |-> a.user_id,
                    is_default_shipping |-> 0, is_default_billing |-> 0] : a \in Addresses}
  /\ ar = [x \in AddressRequests |-> IdleAddressRequest]

\* value.flag ? 1 : 0
Bit(flag) == IF flag = {TRUE} THEN 1 ELSE 0

\* The statement that follows the one at pc: a clear runs only for a flag
\* that is true.
AD_NextPc(pc, is_default_shipping, is_default_billing) ==
  IF pc = "begin" /\ is_default_shipping = {TRUE} THEN "clear_shipping"
  ELSE IF pc \in {"begin", "clear_shipping"} /\ is_default_billing = {TRUE} THEN "clear_billing"
  ELSE "write"

\* Validation and, for the two updates, SELECT id FROM addresses WHERE id = ?
\* AND user_id = ?: 404 when there is no such row.  The partial update needs
\* at least one field beside the id; the flags are the only fields modelled.
AD_Begin(x, kind, u, id, is_default_shipping, is_default_billing) ==
  /\ ar[x].pc = "idle"
  /\ kind = "create" =>
       /\ id \in NewAddressIds
       /\ \A a \in addresses : a.id # id
       /\ \A y \in AddressRequests : ar[y].pc # "idle" => ar[y].id # id
  /\ kind = "update" => is_default_shipping # {} \/ is_default_billing # {}
  /\ ar' = [ar EXCEPT ![x] =
       IF kind # "create" /\ ~\E a \in addresses : a.id = id /\ a.user_id = u
       THEN [IdleAddressRequest EXCEPT !.status = 404]
       ELSE [pc |-> AD_NextPc("begin", is_default_shipping, is_default_billing),
             kind |-> kind, user_id |-> u, id |-> id,
             is_default_shipping |-> is_default_shipping,
             is_default_billing |-> is_default_billing, status |-> 0]]
  /\ UNCHANGED <<addresses, quoteVars, storeVars, edgeVars, svcVars>>

\* UPDATE addresses SET is_default_shipping = 0 WHERE user_id = ?
AD_ClearShipping(x) ==
  /\ ar[x].pc = "clear_shipping"
  /\ addresses' = {IF a.user_id = ar[x].user_id
                    THEN [a EXCEPT !.is_default_shipping = 0] ELSE a : a \in addresses}
  /\ ar' = [ar EXCEPT ![x].pc =
              AD_NextPc("clear_shipping", ar[x].is_default_shipping, ar[x].is_default_billing)]
  /\ UNCHANGED <<quoteVars, storeVars, edgeVars, svcVars>>

\* UPDATE addresses SET is_default_billing = 0 WHERE user_id = ?
AD_ClearBilling(x) ==
  /\ ar[x].pc = "clear_billing"
  /\ addresses' = {IF a.user_id = ar[x].user_id
                    THEN [a EXCEPT !.is_default_billing = 0] ELSE a : a \in addresses}
  /\ ar' = [ar EXCEPT ![x].pc = "write"]
  /\ UNCHANGED <<quoteVars, storeVars, edgeVars, svcVars>>

\* The row an update leaves: PUT /api/addresses/:id writes both flags,
\* PUT /api/addresses only the flags the body carries.
AD_Updated(a, req) ==
  IF req.kind = "update_id"
  THEN [a EXCEPT !.is_default_shipping = Bit(req.is_default_shipping),
                 !.is_default_billing = Bit(req.is_default_billing)]
  ELSE [a EXCEPT !.is_default_shipping =
                   IF req.is_default_shipping = {} THEN @ ELSE Bit(req.is_default_shipping),
                 !.is_default_billing =
                   IF req.is_default_billing = {} THEN @ ELSE Bit(req.is_default_billing)]

\* The INSERT of the create (201), or the UPDATE ... WHERE id = ? AND
\* user_id = ? of the updates (200).
AD_Write(x) ==
  /\ ar[x].pc = "write"
  /\ addresses' =
       IF ar[x].kind = "create"
       THEN addresses \cup {[id |-> ar[x].id, user_id |-> ar[x].user_id,
                              is_default_shipping |-> Bit(ar[x].is_default_shipping),
                              is_default_billing |-> Bit(ar[x].is_default_billing)]}
       ELSE {IF a.id = ar[x].id /\ a.user_id = ar[x].user_id
             THEN AD_Updated(a, ar[x]) ELSE a : a \in addresses}
  /\ ar' = [ar EXCEPT ![x] =
              [IdleAddressRequest EXCEPT !.status = IF ar[x].kind = "create" THEN 201 ELSE 200]]
  /\ UNCHANGED <<quoteVars, storeVars, edgeVars, svcVars>>

SellerResp(status, error) == [status |-> status, error |-> error]
NoSellerResp == SellerResp(0, "")

(***************************************************************************)
(* The users and the role each was created with.                           *)
(***************************************************************************)
UserIds == {"u1", "u2", "s1", "s2"}
Role(u) == IF u \in {"s1", "s2"} THEN "seller" ELSE "buyer"

\* A Map or KV namespace without entry.
EmptyMap == [k \in {} |-> 0]

\* The sockets that may connect; a socket that never connected is "unused".
SocketIds == {"w1", "w2", "w3"}
NoSocket == [status |-> "unused", user_id |-> ""]
WsResp(status, ok, attempted, sent) == [status |-> status, ok |-> ok, attempted |-> attempted, sent |-> sent]
NoWsResp == WsResp(0, FALSE, {}, {})

\* The realtime worker starts without connection.
SocketInit ==
  /\ userSockets = EmptyMap
  /\ sockets = [w \in SocketIds |-> NoSocket]
  /\ deliveries = {}
  /\ wsResp = NoWsResp

\* The keys of the product cache.
PRODUCTS_LIST_KEY == "products:all"
productKey(id) == "product:" \o id

IdleRead == [pc |-> "idle", key |-> "", id |-> ""]
ReadResp(status, cached, value) == [status |-> status, cached |-> cached, value |-> value]
NoReadResp == ReadResp(0, FALSE, {})

\* An empty cache, with or without the PRODUCT_CACHE binding.
CacheInit(bound) ==
  /\ PRODUCT_CACHE = [bound |-> bound, kv |-> EmptyMap]
  /\ tasks = {}
  /\ pr = IdleRead
  /\ readResp = NoReadResp

UserResp(status, role) == [status |-> status, role |-> role]
NoUserResp == UserResp(0, "")

\* Every user has the role they were created with.
UsersInit ==
  /\ users = [u \in UserIds |-> [role |-> Role(u)]]
  /\ userResp = NoUserResp

\* The services beside the store: no connection, no cache binding, the users.
ServicesInit == SocketInit /\ CacheInit(FALSE) /\ UsersInit

\* No cart response yet, nothing sent to the realtime service, the
\* REALTIME_SERVICE binding configured and no order-status response yet.
EdgeInit ==
  /\ cartResp = NoCartResp
  /\ notifications = EmptyBag
  /\ env = [REALTIME_SERVICE |-> TRUE]
  /\ sellerResp = NoSellerResp

\* The state after the schema is installed and the products are created.
StoreInit ==
  /\ products = [p \in Products |-> NewProduct(p)]
  /\ inventory = [p \in Products |-> [stock |-> IF p = "p1" THEN 2 ELSE 1, reserved |-> 0]]
  /\ cart_items = {}
  /\ orders = {}
  /\ order_items = {}
  /\ po = [r \in Requests |-> IdleRequest]
  /\ so = [pc |-> "idle", product_id |-> "", newStock |-> 0]
  /\ sd = [pc |-> "idle", product_id |-> ""]
  /\ nextOrderId = 1
  /\ EdgeInit
  /\ AddressBookInit
  /\ ServicesInit

QuoteIdle ==
  /\ qItems = <<>>
  /\ qRows = <<>>
  /\ qpc = "off"
  /\ qOptions = <<>>
  /\ qMethod = 0
  /\ qAltOk = TRUE
  /\ qShipping = 0
  /\ qTotal = 0

(***************************************************************************)
(* Cart (POST /api/cart/items).  The handler's three reads and its single  *)
(* write are taken as one step.                                            *)
(***************************************************************************)
CartQty(u, p) ==
  LET rows == {c \in cart_items : c.user_id = u /\ c.product_id = p}
  IN IF rows = {} THEN 0 ELSE (CHOOSE c \in rows : TRUE).qty

HasCartLine(u, p) == \E c \in cart_items : c.user_id = u /\ c.product_id = p

DeleteCartOfUser(u, p) == {c \in cart_items : c.user_id # u}

\* DELETE FROM cart_items WHERE user_id = ? AND product_id = ?
DeleteCartLine(u, p) == {c \in cart_items : ~(c.user_id = u /\ c.product_id = p)}

\* INSERT INTO cart_items ... ON CONFLICT(user_id, product_id) DO UPDATE SET qty
UpsertCartLine(u, p, qty) ==
  DeleteCartLine(u, p) \cup {[user_id |-> u, product_id |-> p, qty |-> qty]}

ProductByIdAsActive(p) ==
  IF p \in Products
  THEN {[id |-> p, seller_id |-> ProductRows[p].seller_id, status |-> "active"]}
  ELSE {}

\* SELECT id, seller_id, status FROM products WHERE id = ?
ProductById(p) ==
  IF p \in Products
  THEN {[id |-> p, seller_id |-> ProductRows[p].seller_id, status |-> products[p].status]}
  ELSE {}

CartNewQtyRemoveAll(currentQty, qty, operation) ==
  CASE operation = "set" -> qty
    [] operation = "add" -> currentQty + qty
    [] operation = "remove" -> 0

\* 4) newQty of the operation; remove is answered before it when the line is
\* missing or shorter than qty.
CartNewQty(currentQty, qty, operation) ==
  CASE operation = "set" -> qty
    [] operation = "add" -> currentQty + qty
    [] operation = "remove" -> currentQty - qty

IsIncreasingNever(currentQty, newQty, operation) == FALSE

\* 5) the stock limit applies to a set or add that raises the quantity.
IsIncreasing(currentQty, newQty, operation) ==
  operation \in {"set", "add"} /\ newQty > currentQty

\* What the handler answers from its three reads.
CartResponse(u, p, qty, operation) ==
  IF \A product \in ProductById(p) : product.status # "active"
  THEN CartError(404, "Product is not available")
  ELSE IF \E product \in ProductById(p) : product.seller_id = u
  THEN CartError(403, "You cannot add your own product to cart")
  ELSE LET available == inventory[p].stock - inventory[p].reserved
           currentQty == CartQty(u, p)
           newQty == CartNewQty(currentQty, qty, operation)
       IN IF operation = "remove" /\ ~HasCartLine(u, p)
          THEN CartError(404, "Item not found in cart")
          ELSE IF operation = "remove" /\ qty > currentQty
          THEN [CartError(400, "Cannot remove more than currently in cart")
                  EXCEPT !.current_qty = {currentQty}]
          ELSE IF IsIncreasing(currentQty, newQty, operation) /\ available <= 0
          THEN [CartError(400, "Product is out of stock") EXCEPT !.available = {0}]
          ELSE IF IsIncreasing(currentQty, newQty, operation) /\ newQty > available
          THEN [CartError(400, "Requested quantity exceeds available stock")
                  EXCEPT !.available = {available}]
          ELSE IF newQty <= 0
          THEN [CartError(200, "") EXCEPT !.qty = {0}]
          ELSE [CartError(200, "") EXCEPT !.qty = {newQty}, !.available = {available}]

CartWriteAlwaysUpsert(u, p, newQty) == UpsertCartLine(u, p, newQty)

\* 6) and 7): the line is deleted when newQty <= 0 and upserted otherwise.
CartWrite(u, p, newQty) ==
  IF newQty <= 0 THEN DeleteCartLine(u, p) ELSE UpsertCartLine(u, p, newQty)

CartUpdate(u, p, qty, operation) ==
  LET resp == CartResponse(u, p, qty, operation)
  IN /\ cartResp' = resp
     /\ cart_items' = IF resp.status = 200
                      THEN CartWrite(u, p, CartNewQty(CartQty(u, p), qty, operation))
                      ELSE cart_items
     /\ UNCHANGED <<products, inventory, orders, order_items, po, so, sd,
                    nextOrderId, quoteVars, notifications, env, sellerResp, addrVars, svcVars>>

(***************************************************************************)
(* Place-order (POST /api/checkout/place-order).                           *)
(***************************************************************************)
\* A statement of the cart handler throws: its only write is its last
\* statement, so nothing is written, and the catch answers 500 with
\* String(err).
CartUpdateFails(u, err) ==
  /\ cartResp' = CartError(500, StringOfError(err))
  /\ UNCHANGED <<quoteVars, storeVars, notifications, env, sellerResp, addrVars, svcVars>>

\* All orders of the rows of a result set (the SELECT has no ORDER BY).
SeqsOf(S) ==
  {q \in [1..Cardinality(S) -> S] : \A i, j \in 1..Cardinality(S) : q[i] = q[j] => i = j}

\* The cart read: cart_items JOIN products LEFT JOIN inventory for the user.
CartRead(u) ==
  { [product_id |-> c.product_id, qty |-> c.qty,
     title |-> products[c.product_id].title,
     price_cents |-> products[c.product_id].price_cents,
     stock |-> inventory[c.product_id].stock,
     reserved |-> inventory[c.product_id].reserved] : c \in {d \in cart_items : d.user_id = u} }

\* What the commit uses of the rows read: stock and reserved are read by the
\* validation loop only.
Snapshot(items) ==
  [i \in 1..Len(items) |->
     [product_id |-> items[i].product_id, qty |-> items[i].qty,
      title |-> items[i].title, price_cents |-> items[i].price_cents]]

FirstShortNone(items) == 0

\* The index of the first item with qty > stock - reserved, 0 when there is none.
FirstShort(items) ==
  LET short == {i \in 1..Len(items) : items[i].qty > items[i].stock - items[i].reserved}
  IN IF short = {} THEN 0 ELSE CHOOSE i \in short : \A j \in short : i <= j

RejectionSkipEmpty(items, u, shipping_address_id, shipping_method_id) ==
  CASE FirstShort(items) # 0 -> "Insufficient stock"
    [] FirstShort(items) = 0
         /\ AddressOf(shipping_address_id, u) = {} -> "Shipping address not found"
    [] FirstShort(items) = 0
         /\ AddressOf(shipping_address_id, u) # {}
         /\ MethodById(shipping_method_id) = {} -> "Invalid or inactive shipping method"
    [] OTHER -> ""

\* What the handler answers before the commit, from its reads; "" when every
\* check passes.
Rejection(items, u, shipping_address_id, shipping_method_id) ==
  CASE items = <<>> -> "Cart is empty"
    [] items # <<>> /\ FirstShort(items) # 0 -> "Insufficient stock"
    [] items # <<>> /\ FirstShort(items) = 0
         /\ AddressOf(shipping_address_id, u) = {} -> "Shipping address not found"
    [] items # <<>> /\ FirstShort(items) = 0
         /\ AddressOf(shipping_address_id, u) # {}
         /\ MethodById(shipping_method_id) = {} -> "Invalid or inactive shipping method"
    [] items # <<>> /\ FirstShort(items) = 0
         /\ AddressOf(shipping_address_id, u) # {}
         /\ MethodById(shipping_method_id) # {}
         /\ (CHOOSE m \in MethodById(shipping_method_id) : TRUE).zone
              # ZoneOf((CHOOSE a \in AddressOf(shipping_address_id, u) : TRUE).country)
         -> "Shipping method zone does not match"
    [] OTHER -> ""

\* Statements 1-5: the cart read, the stock validation, the address and
\* method reads and the shipping computation.  Addresses and shipping methods
\* are written by no modelled operation, so these reads are one step with the
\* cart read.  The request is rejected (status 400) or proceeds to the commit.
PO_Read(r, shipping_address_id, shipping_method_id, billing_address_id, altOk) ==
  /\ po[r].pc = "idle"
  /\ nextOrderId <= MaxOrders
  /\ \E items \in SeqsOf(CartRead(RequestUser(r))) :
       LET u == RequestUser(r)
           why == Rejection(items, u, shipping_address_id, shipping_method_id)
           subtotal_cents == SubtotalCents(items)
       IN IF why # ""
          THEN /\ po' = [po EXCEPT ![r] =
                    [IdleRequest EXCEPT
                       !.user_id = u,
                       !.resp = IF why = "Insufficient stock"
                                THEN [status |-> 400, error |-> why,
                                      product_id |-> items[FirstShort(items)].product_id,
                                      available |-> items[FirstShort(items)].stock
                                                    - items[FirstShort(items)].reserved]
                                ELSE Resp(400, why)]]
               /\ UNCHANGED nextOrderId
          ELSE LET address == CHOOSE a \in AddressOf(shipping_address_id, u) : TRUE
                   method == CHOOSE m \in MethodById(shipping_method_id) : TRUE
                   shipping_cents ==
                     PlaceOrderShipping(method, ZoneRows(ZoneOf(address.country)),
                                        subtotal_cents, altOk)
               IN /\ po' = [po EXCEPT ![r] =
                       [pc |-> "insert_order", user_id |-> u,
                        items |-> Snapshot(items), k |-> 1,
                        orderId |-> nextOrderId,
                        subtotal_cents |-> subtotal_cents,
                        shipping_cents |-> shipping_cents,
                        total_cents |-> TotalCents(subtotal_cents, shipping_cents),
                        shipping_address_id |-> address.id,
                        billing_address_id |-> IF billing_address_id = ""
                                               THEN address.id ELSE billing_address_id,
                        shipping_method_id |-> method.id,
                        resp |-> NoResp]]
                  /\ nextOrderId' = nextOrderId + 1
  /\ UNCHANGED <<products, inventory, cart_items, orders, order_items, so, sd, quoteVars, edgeVars, addrVars, svcVars>>

PO_InsertOrderLost(r) ==
  /\ po[r].pc = "insert_order"
  /\ po' = [po EXCEPT ![r].pc = "insert_item"]
  /\ UNCHANGED <<products, inventory, cart_items, orders, order_items, so, sd,
                 nextOrderId, quoteVars, edgeVars, addrVars, svcVars>>

\* Statement 6: INSERT INTO orders.
PO_InsertOrder(r) ==
  /\ po[r].pc = "insert_order"
  /\ orders' = orders \cup
       {[id |-> po[r].orderId, user_id |-> po[r].user_id, status |-> "placed",
         subtotal_cents |-> po[r].subtotal_cents,
         shipping_cents |-> po[r].shipping_cents,
         tax_cents |-> TaxCents,
         total_cents |-> po[r].total_cents,
         shipping_address_id |-> po[r].shipping_address_id,
         billing_address_id |-> po[r].billing_address_id,
         shipping_method_id |-> po[r].shipping_method_id]}
  /\ po' = [po EXCEPT ![r].pc = "insert_item"]
  /\ UNCHANGED <<products, inventory, cart_items, order_items, so, sd, nextOrderId, quoteVars, edgeVars, addrVars, svcVars>>

\* Statement 7a: INSERT INTO order_items for item k of the read.
PO_InsertItem(r) ==
  /\ po[r].pc = "insert_item"
  /\ order_items' = order_items \cup
       {[order_id |-> po[r].orderId,
         product_id |-> po[r].items[po[r].k].product_id,
         title_snapshot |-> po[r].items[po[r].k].title,
         price_cents |-> po[r].items[po[r].k].price_cents,
         qty |-> po[r].items[po[r].k].qty]}
  /\ po' = [po EXCEPT ![r].pc = "update_inventory"]
  /\ UNCHANGED <<products, inventory, cart_items, orders, so, sd, nextOrderId, quoteVars, edgeVars, addrVars, svcVars>>

\* SET stock = stock - ?
DecrementStock(stock, qty) == stock - qty

PO_ReserveInventory(r) ==
  /\ po[r].pc = "update_inventory"
  /\ LET item == po[r].items[po[r].k]
     IN inventory' = [inventory EXCEPT ![item.product_id].reserved = @ + item.qty]
  /\ po' = [po EXCEPT ![r].k = @ + 1,
                      ![r].pc = IF po[r].k < Len(po[r].items)
                                THEN "insert_item" ELSE "clear_cart"]
  /\ UNCHANGED <<products, cart_items, orders, order_items, so, sd, nextOrderId, quoteVars, edgeVars, addrVars, svcVars>>

\* Statement 7b: UPDATE inventory SET stock = stock - qty for item k; then the
\* next item, or the cart clear after the last one.
PO_UpdateInventory(r) ==
  /\ po[r].pc = "update_inventory"
  /\ LET item == po[r].items[po[r].k]
     IN inventory' = [inventory EXCEPT ![item.product_id].stock =
                        DecrementStock(@, item.qty)]
  /\ po' = [po EXCEPT ![r].k = @ + 1,
                      ![r].pc = IF po[r].k < Len(po[r].items)
                                THEN "insert_item" ELSE "clear_cart"]
  /\ UNCHANGED <<products, cart_items, orders, order_items, so, sd, nextOrderId, quoteVars, edgeVars, addrVars, svcVars>>

PO_ClearCartOfAll(r) ==
  /\ po[r].pc = "clear_cart"
  /\ cart_items' = {}
  /\ po' = [po EXCEPT ![r].pc = "respond"]
  /\ UNCHANGED <<products, inventory, orders, order_items, so, sd, nextOrderId,
                 quoteVars, edgeVars, addrVars, svcVars>>

\* Statement 8: DELETE FROM cart_items WHERE user_id = ?
PO_ClearCart(r) ==
  /\ po[r].pc = "clear_cart"
  /\ cart_items' = {c \in cart_items : c.user_id # po[r].user_id}
  /\ po' = [po EXCEPT ![r].pc = "respond"]
  /\ UNCHANGED <<products, inventory, orders, order_items, so, sd, nextOrderId, quoteVars, edgeVars, addrVars, svcVars>>

\* What env.REALTIME_SERVICE.fetch(realtimeReq) can do: return a promise that
\* is fulfilled, return one that is rejected, or throw.
FetchOutcomes == {"ok", "rejects", "throws"}

\* callLogger reads env and ctx, which its module (common.js) does not
\* declare: the call always ends in a ReferenceError.
CallLogger == "throws"

TryRethrow(outcome) == outcome

RealtimeDispatchTwice(user_id, order_id, fetchOutcome) ==
  IF env.REALTIME_SERVICE /\ fetchOutcome # "throws"
  THEN [x \in {[user_id |-> user_id, order_id |-> order_id, status |-> "placed"]} |-> 2]
  ELSE EmptyBag

\* try { ... } catch (e) { /* ignore */ }: an exception of the block stops there.
TryIgnore(outcome) == IF outcome = "throws" THEN "caught" ELSE outcome

\* The request handed to ctx.waitUntil, when there is a binding and fetch
\* returned a promise.
RealtimeDispatch(user_id, order_id, fetchOutcome) ==
  IF env.REALTIME_SERVICE /\ fetchOutcome # "throws"
  THEN SetToBag({[user_id |-> user_id, order_id |-> order_id, status |-> "placed"]})
  ELSE EmptyBag

\* Statements 9-10: the realtime dispatch, the log event and the order
\* response.  An exception that leaves one of the two try blocks reaches the
\* handler's catch (status 500).
PO_Respond(r, fetchOutcome) ==
  /\ po[r].pc = "respond"
  /\ LET realtime == TryIgnore(IF env.REALTIME_SERVICE THEN fetchOutcome ELSE "skipped")
         log == TryIgnore(CallLogger)
     IN po' = [po EXCEPT ![r] =
                 [IdleRequest EXCEPT
                    !.user_id = po[r].user_id,
                    !.orderId = po[r].orderId,
                    !.resp = IF realtime = "throws" \/ log = "throws"
                             THEN Resp(500, "error") ELSE Resp(200, "")]]
  /\ notifications' =
       notifications (+) RealtimeDispatch(po[r].user_id, po[r].orderId, fetchOutcome)
  /\ UNCHANGED <<products, inventory, cart_items, orders, order_items, so, sd,
                 nextOrderId, quoteVars, cartResp, env, sellerResp, addrVars, svcVars>>

CommitPcs == {"insert_order", "insert_item", "update_inventory", "clear_cart"}

\* The awaited statement of the commit throws (or the request is aborted at
\* it): the catch answers 500 and nothing already written is undone.
PO_Fail(r) ==
  /\ po[r].pc \in CommitPcs
  /\ \E err \in StorageErrors :
       po' = [po EXCEPT ![r] = [IdleRequest EXCEPT !.user_id = po[r].user_id,
                                                   !.orderId = po[r].orderId,
                                                   !.resp = Resp(500, StringOfError(err))]]
  /\ UNCHANGED <<products, inventory, cart_items, orders, order_items, so, sd,
                 nextOrderId, quoteVars, edgeVars, addrVars, svcVars>>

(***************************************************************************)
(* The product cache (KV) of the catalog worker.  A read looks the key up  *)
(* and answers from the cache on a hit; on a miss it reads the rows,       *)
(* hands the put of what it read to ctx.waitUntil and answers.  A mutation *)
(* hands the deletes of the list key and the product key to ctx.waitUntil. *)
(* What waitUntil holds runs later, each write on its own.                 *)
(***************************************************************************)
MaxTasks == 1

\* The object the read routes build from the rows of product id.
ProductView(id) ==
  [id |-> id, title |-> products[id].title, price_cents |-> products[id].price_cents,
   status |-> products[id].status, stock |-> inventory[id].stock,
   reserved |-> inventory[id].reserved]

\* What a read of the key takes from the rows: the list route selects the
\* active products, the detail route the product whatever its status.
RowsFor(key, id) ==
  IF key = PRODUCTS_LIST_KEY
  THEN {ProductView(p) : p \in {q \in Products : products[q].status = "active"}}
  ELSE {ProductView(id)}

KvPut(kv, key, value) == [k \in DOMAIN kv \cup {key} |-> IF k = key THEN value ELSE kv[k]]
KvDelete(kv, key) == [k \in DOMAIN kv \ {key} |-> kv[k]]

KvTask(op, key, value) == [op |-> op, key |-> key, value |-> value]

\* "Invalidate caches" of the mutation handlers.
Invalidate(id) ==
  IF PRODUCT_CACHE.bound
  THEN /\ tasks' = tasks \cup {KvTask("delete", PRODUCTS_LIST_KEY, {}),
                               KvTask("delete", productKey(id), {})}
       /\ UNCHANGED <<PRODUCT_CACHE, pr, readResp>>
  ELSE UNCHANGED cacheVars

\* GET /api/products (key the list key) and GET /api/products/:id: the
\* cache lookup.
PR_Get(key, id) ==
  /\ pr.pc = "idle"
  /\ IF PRODUCT_CACHE.bound /\ key \in DOMAIN PRODUCT_CACHE.kv
     THEN /\ readResp' = ReadResp(200, TRUE, PRODUCT_CACHE.kv[key])
          /\ UNCHANGED pr
     ELSE /\ pr' = [pc |-> "db", key |-> key, id |-> id]
          /\ UNCHANGED readResp
  /\ UNCHANGED <<PRODUCT_CACHE, tasks, quoteVars, storeVars, edgeVars, addrVars, wsVars, userVars>>

\* The SELECT of the read, the put handed to ctx.waitUntil and the answer.
PR_Db ==
  /\ pr.pc = "db"
  /\ LET value == RowsFor(pr.key, pr.id)
     IN /\ tasks' = IF PRODUCT_CACHE.bound
                    THEN tasks \cup {KvTask("put", pr.key, value)}
                    ELSE tasks
        /\ readResp' = ReadResp(200, FALSE, value)
  /\ pr' = IdleRead
  /\ UNCHANGED <<PRODUCT_CACHE, quoteVars, storeVars, edgeVars, addrVars, wsVars, userVars>>

\* One KV write that ctx.waitUntil holds is carried out.
KV_Run(t) ==
  /\ t \in tasks
  /\ PRODUCT_CACHE' = [PRODUCT_CACHE EXCEPT !.kv = IF t.op = "put"
                                                   THEN KvPut(@, t.key, t.value)
                                                   ELSE KvDelete(@, t.key)]
  /\ tasks' = tasks \ {t}
  /\ UNCHANGED <<pr, readResp, quoteVars, storeVars, edgeVars, addrVars, wsVars, userVars>>

\* An entry put with expirationTtl 60 expires.
KV_Expire(key) ==
  /\ key \in DOMAIN PRODUCT_CACHE.kv
  /\ PRODUCT_CACHE' = [PRODUCT_CACHE EXCEPT !.kv = KvDelete(@, key)]
  /\ UNCHANGED <<tasks, pr, readResp, quoteVars, storeVars, edgeVars, addrVars, wsVars, userVars>>

(***************************************************************************)
(* Seller stock update (POST /api/seller/products/stock): the inventory    *)
(* read and the check, then the upsert.                                    *)
(***************************************************************************)
NewStock(currentStock, qty, operation) ==
  CASE operation = "set" -> qty
    [] operation = "add" -> currentStock + qty
    [] operation = "remove" -> currentStock - qty

SO_Read(p, qty, operation) ==
  /\ so.pc = "idle"
  /\ LET newStock == NewStock(inventory[p].stock, qty, operation)
     IN /\ newStock >= 0
        /\ newStock <= MaxStock
        /\ so' = [pc |-> "write", product_id |-> p, newStock |-> newStock]
  /\ UNCHANGED <<products, inventory, cart_items, orders, order_items, po, sd,
                 nextOrderId, quoteVars, edgeVars, addrVars, svcVars>>

SO_Write ==
  /\ so.pc = "write"
  /\ inventory' = [inventory EXCEPT ![so.product_id].stock = so.newStock]
  /\ so' = [pc |-> "idle", product_id |-> "", newStock |-> 0]
  /\ UNCHANGED <<products, cart_items, orders, order_items, po, sd, nextOrderId, quoteVars, edgeVars, addrVars, wsVars, userVars>>
  /\ Invalidate(so.product_id)

(***************************************************************************)
(* Soft-delete (DELETE /api/seller/products): status 'deleted', then       *)
(* stock 0, as two statements.                                             *)
(***************************************************************************)
SD_MarkDeleted(p) ==
  /\ sd.pc = "idle"
  /\ products[p].status # "deleted"
  /\ products' = [products EXCEPT ![p].status = "deleted"]
  /\ sd' = [pc |-> "zero_stock", product_id |-> p]
  /\ UNCHANGED <<inventory, cart_items, orders, order_items, po, so, nextOrderId, quoteVars, edgeVars, addrVars, svcVars>>

SD_ZeroStock ==
  /\ sd.pc = "zero_stock"
  /\ inventory' = [inventory EXCEPT ![sd.product_id].stock = 0]
  /\ sd' = [pc |-> "idle", product_id |-> ""]
  /\ UNCHANGED <<products, cart_items, orders, order_items, po, so, nextOrderId, quoteVars, edgeVars, addrVars, wsVars, userVars>>
  /\ Invalidate(sd.product_id)

(***************************************************************************)
(* Product status (POST /api/seller/products/status): the ownership read   *)
(* and the UPDATE; seller_id is written by no operation, so the two are    *)
(* one step.  A caller who is not seller or admin, or a seller who does    *)
(* not own the product, is answered 403 and writes nothing.                *)
(***************************************************************************)
ProductStatuses == {"active", "inactive", "deleted"}

ProductStatus(caller, p, status) ==
  /\ Role(caller) \in {"seller", "admin"}
  /\ p \in Products
  /\ Role(caller) = "seller" => ProductRows[p].seller_id = caller
  /\ products' = [products EXCEPT ![p].status = status]
  /\ UNCHANGED <<inventory, cart_items, orders, order_items, po, so, sd, nextOrderId,
                 quoteVars, edgeVars, addrVars, wsVars, userVars>>
  /\ Invalidate(p)

(***************************************************************************)
(* Product update (PUT /api/seller/products): the ownership read and one   *)
(* UPDATE of the fields the body carries (a field not given is {}).        *)
(***************************************************************************)
ProductUpdateCascade(caller, p, title, price_cents, status) ==
  /\ Role(caller) \in {"seller", "admin"}
  /\ p \in Products
  /\ Role(caller) = "seller" => ProductRows[p].seller_id = caller
  /\ price_cents # {}
  /\ products' = [products EXCEPT ![p].price_cents = CHOOSE c \in price_cents : TRUE]
  /\ order_items' = {IF i.product_id = p
                       THEN [i EXCEPT !.price_cents = CHOOSE c \in price_cents : TRUE]
                       ELSE i : i \in order_items}
  /\ UNCHANGED <<inventory, cart_items, orders, po, so, sd, nextOrderId,
                 quoteVars, edgeVars, addrVars, svcVars>>

ProductUpdate(caller, p, title, price_cents, status) ==
  /\ Role(caller) \in {"seller", "admin"}
  /\ p \in Products
  /\ Role(caller) = "seller" => ProductRows[p].seller_id = caller
  /\ title # {} \/ price_cents # {} \/ status # {}
  /\ products' =
       [products EXCEPT
          ![p] = [title |-> IF title = {} THEN @.title ELSE CHOOSE t \in title : TRUE,
                  price_cents |-> IF price_cents = {} THEN @.price_cents
                                  ELSE CHOOSE c \in price_cents : TRUE,
                  status |-> IF status = {} THEN @.status ELSE CHOOSE x \in status : TRUE]]
  /\ UNCHANGED <<inventory, cart_items, orders, order_items, po, so, sd, nextOrderId,
                 quoteVars, edgeVars, addrVars, wsVars, userVars>>
  /\ Invalidate(p)

(***************************************************************************)
(* Order status (POST /api/seller/orders/status): the caller must be       *)
(* seller or admin, and a seller must have an item in the order; then      *)
(* UPDATE orders SET status.  Order items are never deleted, so the count  *)
(* and the update are one step.  The handler sends nothing to the realtime *)
(* service.                                                                *)
(***************************************************************************)
OrderStatuses == {"placed", "processing", "shipped", "completed", "cancelled"}

SellerItemCountAny(order_id, seller_id) == 1

\* SELECT COUNT(*) FROM order_items oi JOIN products p ... WHERE oi.order_id = ?
\* AND p.seller_id = ?
SellerItemCount(order_id, seller_id) ==
  Cardinality({i \in order_items :
                 i.order_id = order_id /\ ProductRows[i.product_id].seller_id = seller_id})

SellerOrderStatusUnvalidated(caller, order_id, status) ==
  IF Role(caller) # "seller" /\ Role(caller) # "admin"
  THEN SellerResp(403, "Forbidden")
  ELSE IF Role(caller) = "seller" /\ SellerItemCount(order_id, caller) = 0
  THEN SellerResp(403, "You are not a seller on this order")
  ELSE SellerResp(200, "")

\* The checks in the order of the handler: the role, sellerOrderStatusSchema,
\* then for a seller the count of own items in the order.
SellerOrderStatusResponse(caller, order_id, status) ==
  IF Role(caller) # "seller" /\ Role(caller) # "admin"
  THEN SellerResp(403, "Forbidden")
  ELSE IF status \notin OrderStatuses
  THEN SellerResp(400, "Validation failed")
  ELSE IF Role(caller) = "seller" /\ SellerItemCount(order_id, caller) = 0
  THEN SellerResp(403, "You are not a seller on this order")
  ELSE SellerResp(200, "")

SellerOrderStatus(caller, order_id, status) ==
  /\ sellerResp' = SellerOrderStatusResponse(caller, order_id, status)
  /\ orders' = IF sellerResp'.status = 200
               THEN {IF o.id = order_id THEN [o EXCEPT !.status = status] ELSE o : o \in orders}
               ELSE orders
  /\ UNCHANGED <<products, inventory, cart_items, order_items, po, so, sd, nextOrderId,
                 quoteVars, cartResp, notifications, env, addrVars, svcVars>>

(***************************************************************************)
(* The connection registry of the realtime worker.  addSocket creates the  *)
(* user's Set when it is missing and adds the socket; removeSocket deletes *)
(* the socket and, when the Set is then empty, the user's entry.           *)
(***************************************************************************)
SocketsOf(registry, userId) == IF userId \in DOMAIN registry THEN registry[userId] ELSE <<>>

addSocket(registry, userId, ws) ==
  LET set == SocketsOf(registry, userId)
      added == IF \E i \in 1..Len(set) : set[i] = ws THEN set ELSE Append(set, ws)
  IN [k \in DOMAIN registry \cup {userId} |-> IF k = userId THEN added ELSE registry[k]]

removeSocketKeepEntry(registry, userId, ws) ==
  IF userId \notin DOMAIN registry
  THEN registry
  ELSE [registry EXCEPT ![userId] = SelectSeq(registry[userId], LAMBDA x : x # ws)]

removeSocket(registry, userId, ws) ==
  IF userId \notin DOMAIN registry
  THEN registry
  ELSE LET set == SelectSeq(registry[userId], LAMBDA x : x # ws)
       IN IF Len(set) = 0
          THEN [k \in DOMAIN registry \ {userId} |-> registry[k]]
          ELSE [registry EXCEPT ![userId] = set]

\* GET /ws/orders: 401 without session, 426 without the Upgrade header; else
\* the server end of a new WebSocketPair is registered under the caller.
WS_Connect(auth, upgrade, ws) ==
  /\ sockets[ws].status = "unused"
  /\ IF auth = {} \/ ~upgrade
     THEN UNCHANGED <<userSockets, sockets>>
     ELSE LET userId == CHOOSE u \in auth : TRUE
          IN /\ userSockets' = addSocket(userSockets, userId, ws)
             /\ sockets' = [sockets EXCEPT ![ws] = [status |-> "open", user_id |-> userId]]
  /\ UNCHANGED <<deliveries, wsResp, quoteVars, storeVars, edgeVars, addrVars, cacheVars, userVars>>

\* The close listener of a connected socket; a close may follow an error.
WS_Close(ws) ==
  /\ sockets[ws].status \in {"open", "errored"}
  /\ userSockets' = removeSocket(userSockets, sockets[ws].user_id, ws)
  /\ sockets' = [sockets EXCEPT ![ws].status = "closed"]
  /\ UNCHANGED <<deliveries, wsResp, quoteVars, storeVars, edgeVars, addrVars, cacheVars, userVars>>

\* The error listener of a connected socket.
WS_Error(ws) ==
  /\ sockets[ws].status = "open"
  /\ userSockets' = removeSocket(userSockets, sockets[ws].user_id, ws)
  /\ sockets' = [sockets EXCEPT ![ws].status = "errored"]
  /\ UNCHANGED <<deliveries, wsResp, quoteVars, storeVars, edgeVars, addrVars, cacheVars, userVars>>

(***************************************************************************)
(* broadcastOrderStatus: the sockets of the user's Set in insertion order; *)
(* ws.send throws for the sockets in failing.  The catch block awaits      *)
(* callLogger: when that call throws, the exception leaves the loop and    *)
(* the function.  The result is the sockets whose send was attempted, the  *)
(* sockets that were sent the message and whether the function threw.      *)
(***************************************************************************)
FirstFailing(set, failing) ==
  IF \E i \in 1..Len(set) : set[i] \in failing
  THEN CHOOSE i \in 1..Len(set) :
         set[i] \in failing /\ \A j \in 1..(i - 1) : set[j] \notin failing
  ELSE 0

AllSockets(registry, userId) == <<"w1", "w2", "w3">>

Recipients(registry, userId) == SocketsOf(registry, userId)

broadcastOrderStatus(userId, failing) ==
  LET set == Recipients(userSockets, userId)
      k == FirstFailing(set, failing)
      thrown == k # 0 /\ CallLogger = "throws"
      last == IF thrown THEN k ELSE Len(set)
  IN [attempted |-> {set[i] : i \in 1..last},
      sent |-> {set[i] : i \in 1..last} \ failing,
      thrown |-> thrown]

\* POST /internal/order-status: 400 when user_id, order_id or status is
\* missing (a field not given is {}); else the broadcast, awaited outside
\* any try, and { ok: true }.
InternalOrderStatus(user_id, order_id, status, failing) ==
  /\ IF user_id = {} \/ order_id = {} \/ status = {}
     THEN /\ wsResp' = WsResp(400, FALSE, {}, {})
          /\ UNCHANGED deliveries
     ELSE LET userId == CHOOSE u \in user_id : TRUE
              msg == [type |-> "order_status",
                      order_id |-> CHOOSE o \in order_id : TRUE,
                      status |-> CHOOSE x \in status : TRUE]
              result == broadcastOrderStatus(userId, failing)
          IN /\ deliveries' = deliveries \cup {[ws |-> w, user_id |-> userId, msg |-> msg] : w \in result.sent}
             /\ wsResp' = IF result.thrown
                          THEN WsResp(500, FALSE, result.attempted, result.sent)
                          ELSE WsResp(200, TRUE, result.attempted, result.sent)
  /\ UNCHANGED <<userSockets, sockets, quoteVars, storeVars, edgeVars, addrVars, cacheVars, userVars>>

(***************************************************************************)
(* Profile update (PUT /api/users/me).  userUpdateSchema accepts the roles *)
(* 'buyer', 'seller' and 'admin' and gives role the default 'buyer': the   *)
(* validated value carries a role also when the body has none.  The        *)
(* handler writes every field the validated value carries.  A field the    *)
(* body does not give is {}.                                               *)
(***************************************************************************)
ValidRoles == {"buyer", "seller", "admin"}

userUpdateSchema(body) ==
  [error |-> body.role # {} /\ ~(body.role \subseteq ValidRoles),
   value |-> [name |-> body.name,
              role |-> IF body.role = {} THEN {"buyer"} ELSE body.role]]

UserUpdate(auth, body) ==
  /\ IF auth = {}
     THEN /\ userResp' = UserResp(401, "")
          /\ UNCHANGED users
     ELSE LET userId == CHOOSE u \in auth : TRUE
              validated == userUpdateSchema(body)
              value == validated.value
          IN IF validated.error
             THEN /\ userResp' = UserResp(400, "")
                  /\ UNCHANGED users
             ELSE /\ users' = IF value.role # {}
                              THEN [users EXCEPT ![userId].role = CHOOSE r \in value.role : TRUE]
                              ELSE users
                  /\ userResp' = UserResp(200, users'[userId].role)
  /\ UNCHANGED <<quoteVars, storeVars, edgeVars, addrVars, wsVars, cacheVars>>

AddressIds == {a.id : a \in Addresses}
MethodIds == {ShippingMethods[i].id : i \in 1..Len(ShippingMethods)} \cup {"none"}
Operations == {"set", "add", "remove"}

\* The well-formed place-order inputs: the caller's own address and an active
\* method of its zone.  A request with any other input is rejected by PO_Read
\* before it writes anything.
OwnAddressId(u) == (CHOOSE a \in Addresses : a.user_id = u).id
ValidMethodIds == {"standard-IN", "express-IN"}

\* The four kinds of write of the commit.
CommitWrites(r) ==
  \/ PO_InsertOrder(r)
  \/ PO_InsertItem(r)
  \/ PO_UpdateInventory(r)
  \/ PO_ClearCart(r)

\* The commit and the response of a request whose realtime fetch succeeds.
CommitSteps(r) ==
  \/ CommitWrites(r)
  \/ PO_Respond(r, "ok")

(***************************************************************************)
(* Spec: the buyers.  Cart updates of two buyers and the place-order       *)
(* requests of the first, on the store as created.                         *)
(***************************************************************************)
Init == StoreInit /\ QuoteIdle

Next ==
  \/ \E u \in Buyers, p \in Products, qty \in 1..MaxQty, operation \in Operations :
       CartUpdate(u, p, qty, operation)
  \/ \E m \in ValidMethodIds, altOk \in BOOLEAN :
       PO_Read("r1", OwnAddressId(RequestUser("r1")), m, "", altOk)
  \/ CommitSteps("r1")

Spec == Init /\ [][Next]_vars

(***************************************************************************)
(* SpecCart: the cart alone.  A buyer and the seller send cart updates     *)
(* for the two products and for an id that names no product, while the     *)
(* seller changes the products' status; any stock of p1 up to MaxStock.    *)
(***************************************************************************)
CartUsers == {"u1", "s1"}
ProductIds == Products \cup {"p0"}

CartInit ==
  /\ products = [p \in Products |-> NewProduct(p)]
  /\ inventory \in {[p \in Products |-> [stock |-> IF p = "p1" THEN n ELSE 1, reserved |-> 0]] :
                      n \in 0..MaxStock}
  /\ cart_items = {}
  /\ orders = {}
  /\ order_items = {}
  /\ po = [r \in Requests |-> IdleRequest]
  /\ so = [pc |-> "idle", product_id |-> "", newStock |-> 0]
  /\ sd = [pc |-> "idle", product_id |-> ""]
  /\ nextOrderId = 1
  /\ EdgeInit
  /\ AddressBookInit
  /\ ServicesInit
  /\ QuoteIdle

CartNext ==
  \/ \E u \in CartUsers, p \in ProductIds, qty \in 1..MaxQty, operation \in Operations :
       CartUpdate(u, p, qty, operation)
  \/ \E p \in Products, status \in ProductStatuses : ProductStatus("s1", p, status)

SpecCart == CartInit /\ [][CartNext]_vars

(***************************************************************************)
(* SpecStock: place-order requests against the seller.  Both buyers hold   *)
(* cart lines; the seller sets, adds and removes stock and soft-deletes.   *)
(***************************************************************************)
StockInit ==
  /\ products = [p \in Products |-> NewProduct(p)]
  /\ inventory = [p \in Products |-> [stock |-> 1, reserved |-> 0]]
  /\ cart_items = { [user_id |-> "u1", product_id |-> "p1", qty |-> 1],
                    [user_id |-> "u2", product_id |-> "p1", qty |-> 1],
                    [user_id |-> "u2", product_id |-> "p2", qty |-> 1] }
  /\ orders = {}
  /\ order_items = {}
  /\ po = [r \in Requests |-> IdleRequest]
  /\ so = [pc |-> "idle", product_id |-> "", newStock |-> 0]
  /\ sd = [pc |-> "idle", product_id |-> ""]
  /\ nextOrderId = 1
  /\ EdgeInit
  /\ AddressBookInit
  /\ ServicesInit
  /\ QuoteIdle

StockNext ==
  \/ \E r \in Requests, m \in ValidMethodIds, altOk \in BOOLEAN :
       PO_Read(r, OwnAddressId(RequestUser(r)), m, "", altOk)
  \/ \E r \in Requests : CommitSteps(r)
  \/ \E p \in Products, qty \in 1..MaxQty, operation \in Operations :
       SO_Read(p, qty, operation)
  \/ SO_Write
  \/ \E p \in Products : SD_MarkDeleted(p)
  \/ SD_ZeroStock

SpecStock == StockInit /\ [][StockNext]_vars

(***************************************************************************)
(* SpecRace: two buyers, each with one unit of p1 in the cart (u2 also one *)
(* of p2), and one unit of each product in stock; each sends one           *)
(* place-order request, with any address, method and billing address, and  *)
(* any commit statement may fail.                                          *)
(***************************************************************************)
RaceInit ==
  /\ products = [p \in Products |-> NewProduct(p)]
  /\ inventory = [p \in Products |-> [stock |-> 1, reserved |-> 0]]
  /\ cart_items = { [user_id |-> "u1", product_id |-> "p1", qty |-> 1],
                    [user_id |-> "u2", product_id |-> "p1", qty |-> 1],
                    [user_id |-> "u2", product_id |-> "p2", qty |-> 1] }
  /\ orders = {}
  /\ order_items = {}
  /\ po = [r \in Requests |-> IdleRequest]
  /\ so = [pc |-> "idle", product_id |-> "", newStock |-> 0]
  /\ sd = [pc |-> "idle", product_id |-> ""]
  /\ nextOrderId = 1
  /\ EdgeInit
  /\ AddressBookInit
  /\ ServicesInit
  /\ QuoteIdle

RaceNext ==
  \/ \E r \in Requests, a \in AddressIds, m \in MethodIds, b \in {""} \cup AddressIds,
        altOk \in BOOLEAN :
       /\ po[r].resp = NoResp
       /\ PO_Read(r, a, m, b, altOk)
  \/ \E r \in Requests : CommitSteps(r)
  \/ \E r \in Requests : PO_Fail(r)

SpecRace == RaceInit /\ [][RaceNext]_vars

(***************************************************************************)
(* SpecNotify: the notifications.  The carts of SpecRace; each buyer sends *)
(* one well-formed place-order request; a commit statement may fail, the   *)
(* realtime fetch may succeed, be rejected or throw, the REALTIME_SERVICE  *)
(* binding may be missing, and the seller changes the status of orders.    *)
(***************************************************************************)
NotifyInit ==
  /\ products = [p \in Products |-> NewProduct(p)]
  /\ inventory = [p \in Products |-> [stock |-> 1, reserved |-> 0]]
  /\ cart_items = { [user_id |-> "u1", product_id |-> "p1", qty |-> 1],
                    [user_id |-> "u2", product_id |-> "p1", qty |-> 1],
                    [user_id |-> "u2", product_id |-> "p2", qty |-> 1] }
  /\ orders = {}
  /\ order_items = {}
  /\ po = [r \in Requests |-> IdleRequest]
  /\ so = [pc |-> "idle", product_id |-> "", newStock |-> 0]
  /\ sd = [pc |-> "idle", product_id |-> ""]
  /\ nextOrderId = 1
  /\ cartResp = NoCartResp
  /\ notifications = EmptyBag
  /\ env \in [REALTIME_SERVICE : BOOLEAN]
  /\ sellerResp = NoSellerResp
  /\ AddressBookInit
  /\ ServicesInit
  /\ QuoteIdle

NotifyNext ==
  \/ \E r \in Requests, m \in ValidMethodIds :
       /\ po[r].resp = NoResp
       /\ PO_Read(r, OwnAddressId(RequestUser(r)), m, "", TRUE)
  \/ \E r \in Requests : CommitWrites(r)
  \/ \E r \in Requests, fetchOutcome \in FetchOutcomes : PO_Respond(r, fetchOutcome)
  \/ \E r \in Requests : PO_Fail(r)
  \/ \E order_id \in 1..MaxOrders, status \in OrderStatuses :
       SellerOrderStatus("s1", order_id, status)

SpecNotify == NotifyInit /\ [][NotifyNext]_vars

(***************************************************************************)
(* SpecSeller: the seller routes beside a checkout.  Buyer u1 has one unit *)
(* of p1 in the cart and sends one place-order request, while seller s1    *)
(* edits p1 (title and price, status), changes its stock by one unit,      *)
(* soft-deletes it, and s1, a seller s2 who owns no product and the buyer  *)
(* send order-status requests for order 1.                                 *)
(***************************************************************************)
SellerCallers == {"s1", "s2", "u1"}

\* The bodies of the product updates sent: <<title, price_cents, status>>.
ProductEdits == { <<{"t1b"}, {700}, {}>>, <<{}, {}, {"inactive"}>>, <<{}, {}, {"active"}>> }

\* The statuses the order-status requests carry: two of the schema and one
\* that is not.
StatusesSent == {"processing", "cancelled", "refunded"}

SellerInit ==
  /\ products = [p \in Products |-> NewProduct(p)]
  /\ inventory = [p \in Products |-> NewInventory(p, 1)]
  /\ cart_items = { [user_id |-> "u1", product_id |-> "p1", qty |-> 1] }
  /\ orders = {}
  /\ order_items = {}
  /\ po = [r \in Requests |-> IdleRequest]
  /\ so = [pc |-> "idle", product_id |-> "", newStock |-> 0]
  /\ sd = [pc |-> "idle", product_id |-> ""]
  /\ nextOrderId = 1
  /\ EdgeInit
  /\ AddressBookInit
  /\ ServicesInit
  /\ QuoteIdle

SellerNext ==
  \/ /\ po["r1"].resp = NoResp
     /\ PO_Read("r1", OwnAddressId("u1"), "standard-IN", "", TRUE)
  \/ CommitSteps("r1")
  \/ \E e \in ProductEdits : ProductUpdate("s1", "p1", e[1], e[2], e[3])
  \/ ProductStatus("s1", "p1", "inactive")
  \/ \E operation \in {"set", "add", "remove"} : SO_Read("p1", 1, operation)
  \/ SO_Write
  \/ SD_MarkDeleted("p1")
  \/ SD_ZeroStock
  \/ \E caller \in SellerCallers, status \in StatusesSent :
       SellerOrderStatus(caller, 1, status)

SpecSeller == SellerInit /\ [][SellerNext]_vars

(***************************************************************************)
(* SpecInventory: every operation that reads or writes inventory.  Buyer   *)
(* u1 adds p1 to the cart and removes it, and sends place-order requests   *)
(* until one is answered; seller s1 sets the stock of p1 to one, adds one  *)
(* and removes one, and soft-deletes it; p1 is created with any stock up   *)
(* to MaxStock.                                                            *)
(***************************************************************************)
InventoryInit ==
  /\ products = [p \in Products |-> NewProduct(p)]
  /\ inventory \in {[p \in Products |-> NewInventory(p, IF p = "p1" THEN n ELSE 1)] :
                      n \in 0..MaxStock}
  /\ cart_items = {}
  /\ orders = {}
  /\ order_items = {}
  /\ po = [r \in Requests |-> IdleRequest]
  /\ so = [pc |-> "idle", product_id |-> "", newStock |-> 0]
  /\ sd = [pc |-> "idle", product_id |-> ""]
  /\ nextOrderId = 1
  /\ EdgeInit
  /\ AddressBookInit
  /\ ServicesInit
  /\ QuoteIdle

InventoryNext ==
  \/ \E qty \in 1..MaxQty, operation \in Operations : CartUpdate("u1", "p1", qty, operation)
  \/ /\ po["r1"].resp = NoResp
     /\ PO_Read("r1", OwnAddressId("u1"), "standard-IN", "", TRUE)
  \/ CommitSteps("r1")
  \/ \E operation \in {"set", "add", "remove"} : SO_Read("p1", 1, operation)
  \/ SO_Write
  \/ SD_MarkDeleted("p1")
  \/ SD_ZeroStock

SpecInventory == InventoryInit /\ [][InventoryNext]_vars

(***************************************************************************)
(* SpecFail: storage failures.  Buyer u1 updates the cart and places       *)
(* orders, and any statement of either handler may throw.                  *)
(***************************************************************************)
FailInit == StoreInit /\ QuoteIdle

FailNext ==
  \/ \E qty \in 1..MaxQty, operation \in Operations : CartUpdate("u1", "p1", qty, operation)
  \/ \E err \in StorageErrors : CartUpdateFails("u1", err)
  \/ PO_Read("r1", OwnAddressId("u1"), "standard-IN", "", TRUE)
  \/ CommitSteps("r1")
  \/ PO_Fail("r1")

SpecFail == FailInit /\ [][FailNext]_vars

(***************************************************************************)
(* SpecDouble: a double submit.  Buyer u1 holds one unit of each product,  *)
(* two units of each are in stock, and two place-order requests of u1 (r1  *)
(* and r3, the only requests here) run statement by statement; the cart is *)
(* not refilled.                                                           *)
(***************************************************************************)
DoubleRequests == {"r1", "r3"}

DoubleInit ==
  /\ products = [p \in Products |-> NewProduct(p)]
  /\ inventory = [p \in Products |-> NewInventory(p, 2)]
  /\ cart_items = { [user_id |-> "u1", product_id |-> "p1", qty |-> 1],
                    [user_id |-> "u1", product_id |-> "p2", qty |-> 1] }
  /\ orders = {}
  /\ order_items = {}
  /\ po = [r \in DoubleRequests |-> IdleRequest]
  /\ so = [pc |-> "idle", product_id |-> "", newStock |-> 0]
  /\ sd = [pc |-> "idle", product_id |-> ""]
  /\ nextOrderId = 1
  /\ EdgeInit
  /\ AddressBookInit
  /\ ServicesInit
  /\ QuoteIdle

DoubleNext ==
  \/ \E r \in DoubleRequests :
       /\ po[r].resp = NoResp
       /\ PO_Read(r, OwnAddressId("u1"), "standard-IN", "", TRUE)
  \/ \E r \in DoubleRequests : CommitSteps(r)

SpecDouble == DoubleInit /\ [][DoubleNext]_vars

(***************************************************************************)
(* The realtime worker alone: connections of the two buyers, their close   *)
(* and error events, and order-status broadcasts whose sends may throw.    *)
(***************************************************************************)
WsInit == StoreInit /\ QuoteIdle

WsNext ==
  \/ \E auth \in {{}, {"u1"}, {"u2"}}, upgrade \in BOOLEAN, ws \in SocketIds :
       WS_Connect(auth, upgrade, ws)
  \/ \E ws \in SocketIds : WS_Close(ws)
  \/ \E ws \in SocketIds : WS_Error(ws)
  \/ \E user_id \in {{}, {"u1"}, {"u2"}}, failing \in SUBSET SocketIds :
       InternalOrderStatus(user_id, {1}, {"shipped"}, failing)

SpecSocket == WsInit /\ [][WsNext]_vars

(***************************************************************************)
(* The catalog worker with the PRODUCT_CACHE binding: reads of product p1  *)
(* and of the list beside the seller's stock changes and status changes of *)
(* p1.  A request is admitted while ctx.waitUntil holds at most MaxTasks   *)
(* writes.                                                                 *)
(***************************************************************************)
CachedInit ==
  /\ products = [p \in Products |-> NewProduct(p)]
  /\ inventory = [p \in Products |-> NewInventory(p, IF p = "p1" THEN 2 ELSE 1)]
  /\ cart_items = {}
  /\ orders = {}
  /\ order_items = {}
  /\ po = [r \in Requests |-> IdleRequest]
  /\ so = [pc |-> "idle", product_id |-> "", newStock |-> 0]
  /\ sd = [pc |-> "idle", product_id |-> ""]
  /\ nextOrderId = 1
  /\ EdgeInit
  /\ AddressBookInit
  /\ SocketInit
  /\ CacheInit(TRUE)
  /\ UsersInit
  /\ QuoteIdle

CachedNext ==
  \/ /\ Cardinality(tasks) <= MaxTasks
     /\ \E key \in {PRODUCTS_LIST_KEY, productKey("p1")} : PR_Get(key, "p1")
  \/ PR_Db
  \/ \E t \in tasks : KV_Run(t)
  \/ \E key \in {PRODUCTS_LIST_KEY, productKey("p1")} : KV_Expire(key)
  \/ /\ Cardinality(tasks) <= MaxTasks
     /\ \E operation \in {"add", "remove"} : SO_Read("p1", 1, operation)
  \/ SO_Write
  \/ /\ Cardinality(tasks) <= MaxTasks
     /\ \E status \in {"inactive", "active"} : ProductUpdate("s1", "p1", {}, {}, {status})

SpecCache == CachedInit /\ [][CachedNext]_vars

(***************************************************************************)
(* The profile route alone: every user, and no one, sends bodies with a    *)
(* name, a role, both, or a role the schema does not know.                 *)
(***************************************************************************)
UserBodies ==
  { [name |-> {"n"}, role |-> {}], [name |-> {}, role |-> {"seller"}],
    [name |-> {"n"}, role |-> {"admin"}], [name |-> {}, role |-> {"buyer"}],
    [name |-> {"n"}, role |-> {"root"}] }

UserInit == StoreInit /\ QuoteIdle

UserNext ==
  \E auth \in {{}} \cup {{u} : u \in UserIds}, body \in UserBodies : UserUpdate(auth, body)

SpecUser == UserInit /\ [][UserNext]_vars

(***************************************************************************)
(* SpecLost: seller stock adds beside checkouts.  Buyer u1 adds p1 to the  *)
(* cart and places orders while seller s1 adds one unit to the stock of p1 *)
(* (the only stock operation here), each handler statement by statement.   *)
(***************************************************************************)
LostInit == StoreInit /\ QuoteIdle

LostNext ==
  \/ CartUpdate("u1", "p1", 1, "add")
  \/ PO_Read("r1", OwnAddressId("u1"), "standard-IN", "", TRUE)
  \/ CommitSteps("r1")
  \/ SO_Read("p1", 1, "add")
  \/ SO_Write

SpecLost == LostInit /\ [][LostNext]_vars

(***************************************************************************)
(* SpecAddress: the address book.  Buyer u1 has up to two address requests *)
(* in flight at a time, of any kind, for the own address, the address of   *)
(* u2 or a new one, interleaved statement by statement.                    *)
(***************************************************************************)
AddressInit == StoreInit /\ QuoteIdle

AddressNext ==
  \/ \E x \in AddressRequests, kind \in AddressKinds,
        id \in AddressIds \cup NewAddressIds, f \in FlagPairs :
       AD_Begin(x, kind, "u1", id, f[1], f[2])
  \/ \E x \in AddressRequests : AD_ClearShipping(x)
  \/ \E x \in AddressRequests : AD_ClearBilling(x)
  \/ \E x \in AddressRequests : AD_Write(x)

SpecAddress == AddressInit /\ [][AddressNext]_vars

(***************************************************************************)
(* Inputs of the rate computation.                                         *)
(***************************************************************************)
QuoteCarts ==
  { <<[price_cents |-> 5, qty |-> 1]>>,
    <<[price_cents |-> 500, qty |-> 3]>>,
    <<[price_cents |-> 50000, qty |-> 3], [price_cents |-> 25000, qty |-> 2]>> }

RowBodies ==
  [speed : {"standard", "Express", "normal"},
   base_cents : {100, 5000},
   free_over_cents : {{}, {200000}}]

RowSeqs == UNION {[1..n -> RowBodies] : n \in 1..MaxMethods}

WithIds(bodies) ==
  [i \in 1..Len(bodies) |->
     [id |-> i, speed |-> bodies[i].speed, base_cents |-> bodies[i].base_cents,
      free_over_cents |-> bodies[i].free_over_cents]]

QuoteInit ==
  /\ StoreInit
  /\ qItems \in QuoteCarts
  /\ qRows \in {WithIds(b) : b \in RowSeqs}
  /\ qpc = "input"
  /\ qOptions = <<>>
  /\ qMethod = 0
  /\ qAltOk = TRUE
  /\ qShipping = 0
  /\ qTotal = 0

\* GET /api/checkout/summary on the inputs.
QSummary ==
  /\ qpc = "input"
  /\ qOptions' = SummaryOptions(qRows, SubtotalCents(qItems))
  /\ qpc' = "summary"
  /\ UNCHANGED <<qItems, qRows, qMethod, qAltOk, qShipping, qTotal, storeVars, edgeVars, addrVars, svcVars>>

\* POST /api/checkout/place-order with method i, right after the summary;
\* altOk = FALSE when the peer query of the fallback surcharge throws.
QPlaceOrder(i, altOk) ==
  /\ qpc = "summary"
  /\ qMethod' = i
  /\ qAltOk' = altOk
  /\ qShipping' = PlaceOrderShipping(qRows[i], qRows, SubtotalCents(qItems), altOk)
  /\ qTotal' = TotalCents(SubtotalCents(qItems), qShipping')
  /\ qpc' = "placed"
  /\ UNCHANGED <<qItems, qRows, qOptions, storeVars, edgeVars, addrVars, svcVars>>

QuoteNext ==
  \/ QSummary
  \/ \E i \in 1..Len(qRows), altOk \in BOOLEAN : QPlaceOrder(i, altOk)

SpecQuote == QuoteInit /\ [][QuoteNext]_vars

(***************************************************************************)
(* The session check (getAuthFromRequest) in front of the cart and         *)
(* checkout routes.  Sessions and users are written by no modelled         *)
(* operation and are fixed data; sid is the value of the cookie ("" when   *)
(* the request carries none) and now the time of the request.              *)
(***************************************************************************)
Sessions ==
  { [id |-> "sid-live", user_id |-> "u1", revoked |-> 0, expires_at |-> 2],
    [id |-> "sid-revoked", user_id |-> "u1", revoked |-> 1, expires_at |-> 2],
    [id |-> "sid-expired", user_id |-> "u1", revoked |-> 0, expires_at |-> 1],
    [id |-> "sid-orphan", user_id |-> "u0", revoked |-> 0, expires_at |-> 2] }

Cookies == {""} \cup {s.id : s \in Sessions} \cup {"sid-unknown"}
Times == {1, 2}

GetAuthIgnoringRevoked(sid, now) ==
  IF sid = "" THEN {}
  ELSE {s.user_id : s \in {t \in Sessions : t.id = sid /\ t.expires_at > now}} \cap UserIds

\* The users the request is authenticated as: {} for null, else one user.
GetAuthFromRequest(sid, now) ==
  IF sid = "" THEN {}
  ELSE {s.user_id : s \in {t \in Sessions :
                              t.id = sid /\ t.revoked = 0 /\ t.expires_at > now}} \cap UserIds

\* items.reduce((sum, item) => sum + price_cents * qty, 0)
RECURSIVE CartSubtotal(_)
CartSubtotal(rows) ==
  IF rows = {} THEN 0
  ELSE LET row == CHOOSE x \in rows : TRUE
       IN row.price_cents * row.qty + CartSubtotal(rows \ {row})

\* GET /api/cart
CartGetRequest(sid, now) ==
  /\ cartResp' =
       IF GetAuthFromRequest(sid, now) = {}
       THEN CartError(401, "Not authenticated")
       ELSE LET u == CHOOSE x \in GetAuthFromRequest(sid, now) : TRUE
            IN [NoCartResp EXCEPT !.status = 200, !.items = {CartRead(u)},
                                  !.subtotal_cents = {CartSubtotal(CartRead(u))}]
  /\ UNCHANGED <<quoteVars, storeVars, notifications, env, sellerResp, addrVars, svcVars>>

\* POST /api/cart/items
CartItemsRequest(sid, now, p, qty, operation) ==
  IF GetAuthFromRequest(sid, now) = {}
  THEN /\ cartResp' = CartError(401, "Not authenticated")
       /\ UNCHANGED <<quoteVars, storeVars, notifications, env, sellerResp, addrVars, svcVars>>
  ELSE CartUpdate(CHOOSE x \in GetAuthFromRequest(sid, now) : TRUE, p, qty, operation)

\* GET /api/checkout/summary; qpc = "unauthenticated" is the 401 response.
SummaryRequest(sid, now) ==
  /\ qpc = "input"
  /\ IF GetAuthFromRequest(sid, now) = {}
     THEN /\ qpc' = "unauthenticated"
          /\ UNCHANGED <<qItems, qRows, qOptions, qMethod, qAltOk, qShipping, qTotal,
                         storeVars, edgeVars, addrVars, svcVars>>
     ELSE QSummary

\* POST /api/checkout/place-order up to the end of its reads.
PlaceOrderRequest(r, sid, now, shipping_address_id, shipping_method_id, billing_address_id, altOk) ==
  /\ po[r].pc = "idle"
  /\ IF GetAuthFromRequest(sid, now) = {}
     THEN /\ po' = [po EXCEPT ![r] =
                     [IdleRequest EXCEPT !.resp = Resp(401, "Not authenticated")]]
          /\ UNCHANGED <<products, inventory, cart_items, orders, order_items, so, sd,
                         nextOrderId, quoteVars, edgeVars, addrVars, svcVars>>
     ELSE /\ RequestUser(r) \in GetAuthFromRequest(sid, now)
          /\ PO_Read(r, shipping_address_id, shipping_method_id, billing_address_id, altOk)

(***************************************************************************)
(* SpecAuth: the cart and checkout routes behind the session check.        *)
(* Requests carry any of the cookies at any of the times: cart reads, cart *)
(* updates of one unit of p1, one checkout summary and place-order         *)
(* requests of the first buyer.                                            *)
(***************************************************************************)
AuthInit ==
  /\ StoreInit
  /\ qItems = <<[price_cents |-> 500, qty |-> 3]>>
  /\ qRows = WithIds(<<[speed |-> "standard", base_cents |-> 5000, free_over_cents |-> {}]>>)
  /\ qpc = "input"
  /\ qOptions = <<>>
  /\ qMethod = 0
  /\ qAltOk = TRUE
  /\ qShipping = 0
  /\ qTotal = 0

AuthNext ==
  \/ \E sid \in Cookies, now \in Times : CartGetRequest(sid, now)
  \/ \E sid \in Cookies, now \in Times, operation \in Operations :
       CartItemsRequest(sid, now, "p1", 1, operation)
  \/ \E sid \in Cookies, now \in Times : SummaryRequest(sid, now)
  \/ \E sid \in Cookies, now \in Times :
       PlaceOrderRequest("r1", sid, now, OwnAddressId("u1"), "standard-IN", "", TRUE)
  \/ CommitSteps("r1")

SpecAuth == AuthInit /\ [][AuthNext]_vars

(***************************************************************************)
(* Properties of the rate computation (specification SpecQuote).           *)
(***************************************************************************)
qSubtotal == SubtotalCents(qItems)
qCap == qSubtotal \div 10
qFreeReached(i) == \E f \in qRows[i].free_over_cents : qSubtotal >= f
qIsSpeed(i, speed) == ToLowerCase(qRows[i].speed) = speed
\* The cost of row i after the free threshold and the 10% cap, before any
\* tie-break.
qPre(i) ==
  LET c == IF qFreeReached(i) THEN 0 ELSE qRows[i].base_cents
  IN IF c > 0 /\ qCap > 0 /\ c > qCap THEN qCap ELSE c
qFirst(speed) ==
  IF \E i \in 1..Len(qRows) : qIsSpeed(i, speed)
  THEN CHOOSE i \in 1..Len(qRows) :
         qIsSpeed(i, speed) /\ \A j \in 1..(i - 1) : ~qIsSpeed(j, speed)
  ELSE 0

\* C4: summary and place-order, back to back on the same cart and rows, give
\* the same cost for the method the order is placed with (no query failing).
C4_SummaryEqualsCharged ==
  (qpc = "placed" /\ qAltOk) => qOptions[qMethod].cost_cents = qShipping

\* C5 (as claimed): every positive summary quote and every positive
\* place-order charge is at most floor(subtotal * 0.10).
C5_PositiveCostWithinCap ==
  /\ qpc # "input" =>
       \A i \in 1..Len(qOptions) :
         qOptions[i].cost_cents > 0 => qOptions[i].cost_cents <= qCap
  /\ qpc = "placed" => (qShipping > 0 => qShipping <= qCap)

\* C5 (amended): when the cap is positive, a positive place-order charge is at
\* most the cap, and a positive summary quote is at most the cap unless it is
\* the express quote the tie-break raised to ceil(c * 1.6) + 200 from a tied
\* cost c <= cap; when the cap is 0 no cost is capped.
C5_WithinCapExceptTieBreak ==
  /\ (qpc = "placed" /\ qCap > 0 /\ qShipping > 0) => qShipping <= qCap
  /\ (qpc # "input" /\ qCap > 0) =>
       \A i \in 1..Len(qOptions) :
         qOptions[i].cost_cents > qCap =>
           /\ qIsSpeed(i, "express")
           /\ \E c \in 1..qCap : qOptions[i].cost_cents = ((16 * c + 9) \div 10) + 200
  /\ (qpc # "input" /\ qCap = 0) =>
       \A i \in 1..Len(qOptions) :
         qOptions[i].cost_cents > 0 => qOptions[i].cost_cents >= qRows[i].base_cents

C5_Witness ==
  /\ qpc = "placed"
  /\ qCap > 0
  /\ qRows[qMethod].base_cents > qCap
  /\ qShipping = qCap
  /\ \E i \in 1..Len(qOptions) : qOptions[i].cost_cents > qCap

\* C6: a method whose free threshold is reached is quoted 0 by summary and
\* charged 0 by place-order, express methods included.
C6_FreeOverIsZero ==
  \A i \in 1..Len(qRows) :
    qFreeReached(i) =>
      /\ qpc # "input" => qOptions[i].cost_cents = 0
      /\ (qpc = "placed" /\ qMethod = i) => qShipping = 0

C6_Witness ==
  /\ qpc = "placed"
  /\ qIsSpeed(qMethod, "express")
  /\ qFreeReached(qMethod)
  /\ qSubtotal \in qRows[qMethod].free_over_cents
  /\ \E s \in 1..Len(qRows) : qIsSpeed(s, "standard") /\ qFreeReached(s)
  /\ qShipping = 0

\* C7 (as claimed): in summary, every express method whose capped cost equals
\* the capped non-zero cost of some standard method is quoted
\* ceil(cost * 1.6) + 200, and every other quote is the capped cost.
C7_AnyTiedPairSurcharged ==
  qpc # "input" =>
    \A j \in 1..Len(qRows) :
      IF /\ qIsSpeed(j, "express")
         /\ qPre(j) # 0
         /\ \E i \in 1..Len(qRows) : qIsSpeed(i, "standard") /\ qPre(i) = qPre(j)
      THEN qOptions[j].cost_cents = ((16 * qPre(j) + 9) \div 10) + 200
      ELSE qOptions[j].cost_cents = qPre(j)

\* C7 (amended): in summary, when the first standard row and the first
\* express row of the result have equal non-zero capped cost, that express
\* quote becomes ceil(cost * 1.6) + 200; every other quote is the capped cost.
C7_FirstPairSurcharged ==
  qpc # "input" =>
    \A j \in 1..Len(qRows) :
      IF /\ j = qFirst("express")
         /\ qFirst("standard") # 0
         /\ qPre(j) # 0
         /\ qPre(qFirst("standard")) = qPre(j)
      THEN qOptions[j].cost_cents = ((16 * qPre(j) + 9) \div 10) + 200
      ELSE qOptions[j].cost_cents = qPre(j)

\* Standard and express both at 150 before the tie-break: express becomes 440.
C7_Witness ==
  /\ qpc = "summary"
  /\ qFirst("standard") # 0
  /\ qFirst("express") # 0
  /\ qPre(qFirst("standard")) = 150
  /\ qPre(qFirst("express")) = 150
  /\ qOptions[qFirst("express")].cost_cents = 440
  /\ qOptions[qFirst("standard")].cost_cents = 150

\* C8: a non-express method whose free threshold is not reached and whose base
\* exceeds cap = floor(subtotal * 0.10) > 0 is quoted cap by summary and
\* charged cap by place-order, and the total is subtotal + cap.
C8_CappedQuoteAndTotal ==
  \A i \in 1..Len(qRows) :
    (/\ ~qIsSpeed(i, "express")
     /\ ~qFreeReached(i)
     /\ qCap > 0
     /\ qRows[i].base_cents > qCap) =>
      /\ qpc # "input" => qOptions[i].cost_cents = qCap
      /\ (qpc = "placed" /\ qMethod = i) =>
           (qShipping = qCap /\ qTotal = qSubtotal + qCap)

\* Price 500, qty 3, base 5000, free over 200000: 1500, 150, 1650.
C8_Witness ==
  /\ qpc = "placed"
  /\ qItems = <<[price_cents |-> 500, qty |-> 3]>>
  /\ ~qIsSpeed(qMethod, "express")
  /\ qRows[qMethod].base_cents = 5000
  /\ qRows[qMethod].free_over_cents = {200000}
  /\ qOptions[qMethod].cost_cents = 150
  /\ qShipping = 150
  /\ qTotal = 1650

(***************************************************************************)
(* Properties of the store.                                                *)
(***************************************************************************)
Succeeded(r) == po[r].resp.status = 200

RECURSIVE SumItems(_)
SumItems(S) ==
  IF S = {} THEN 0
  ELSE LET i == CHOOSE x \in S : TRUE
       IN i.price_cents * i.qty + SumItems(S \ {i})

ItemsOf(o) == {i \in order_items : i.order_id = o.id}

\* C1: of two concurrent place-order requests of different buyers for the
\* last unit of p1 (SpecRace), never both succeed.
C1_NeverBothSucceed == ~(Succeeded("r1") /\ Succeeded("r2"))

\* C2: a place-order request that failed (status 500) has left no order row
\* and no order item in the store (SpecRace).
C2_CommitAllOrNothing ==
  \A r \in Requests :
    po[r].resp.status = 500 =>
      /\ ~\E o \in orders : o.id = po[r].orderId
      /\ ~\E i \in order_items : i.order_id = po[r].orderId

\* C3: every inventory record has stock >= 0 under any interleaving of
\* place-order requests, seller stock operations and soft-deletes (SpecStock).
C3_StockNonNegative == \A p \in Products : inventory[p].stock >= 0

\* C9: every stored order has total_cents = subtotal_cents + shipping_cents +
\* tax_cents, with tax_cents = 0 (Spec).
C9_TotalIsSum ==
  \A o \in orders :
    /\ o.total_cents = o.subtotal_cents + o.shipping_cents + o.tax_cents
    /\ o.tax_cents = 0

C9_Witness ==
  \E o \in orders :
    /\ o.shipping_cents > 0
    /\ Cardinality(ItemsOf(o)) = 2
    /\ o.total_cents = 880

\* C10: in every state, every stored order's subtotal_cents is the sum of
\* price_cents * qty over that order's stored items (SpecRace).
C10_SubtotalMatchesItems ==
  \A o \in orders : o.subtotal_cents = SumItems(ItemsOf(o))

(***************************************************************************)
(* Properties of the cart (specifications Spec and SpecCart).              *)
(***************************************************************************)
\* C11: every stored cart line has qty >= 1 and every qty a cart update
\* reports is >= 0: a line whose quantity reaches 0 is deleted, not stored.
C11_StoredQtyAtLeastOne ==
  /\ \A c \in cart_items : c.qty >= 1
  /\ \A q \in cartResp.qty : q >= 0

\* A remove took a line to 0 (reported qty 0) after an order cleared a cart,
\* and a line of quantity 2 is stored.
C11_Witness ==
  /\ cartResp.status = 200
  /\ cartResp.qty = {0}
  /\ orders # {}
  /\ \E c \in cart_items : c.qty = 2

\* C12: a set or add that raises the quantity of a line of an active
\* product the caller does not sell is accepted, and the line stored with
\* the new quantity, when the new quantity is <= available = stock -
\* reserved as the request reads it; otherwise it is answered 400 with the
\* available field ('Product is out of stock' and 0 when available <= 0,
\* 'Requested quantity exceeds available stock' and the count otherwise) and
\* the cart is unchanged.
C12_RaiseWithinAvailable ==
  [][\A u \in CartUsers, p \in Products, qty \in 1..MaxQty, operation \in {"set", "add"} :
       LET available == inventory[p].stock - inventory[p].reserved
           currentQty == CartQty(u, p)
           newQty == IF operation = "set" THEN qty ELSE currentQty + qty
       IN (newQty > currentQty /\ products[p].status = "active"
             /\ ProductRows[p].seller_id # u
             /\ CartUpdate(u, p, qty, operation)) =>
            IF newQty <= available
            THEN /\ cartResp'.status = 200
                 /\ [user_id |-> u, product_id |-> p, qty |-> newQty] \in cart_items'
            ELSE /\ cartResp'.status = 400
                 /\ cartResp'.error = IF available <= 0
                                      THEN "Product is out of stock"
                                      ELSE "Requested quantity exceeds available stock"
                 /\ cartResp'.available = IF available <= 0 THEN {0} ELSE {available}
                 /\ cart_items' = cart_items]_vars

\* A buyer who holds a line asked for a product that has no stock.
C12_Witness ==
  /\ cartResp.status = 400
  /\ cartResp.error = "Product is out of stock"
  /\ cartResp.available = {0}
  /\ cart_items # {}
  /\ \E p \in Products : inventory[p].stock = 0

\* C20: a cart update (set, add or remove) for a product id that names no
\* product or a product whose status is not 'active' is answered 404, one for
\* an active product whose seller is the caller is answered 403, and neither
\* creates, changes or deletes a cart line.
C20_ProductChecksReject ==
  [][\A u \in CartUsers, p \in ProductIds, qty \in 1..MaxQty, operation \in Operations :
       LET unavailable == IF p \in Products THEN products[p].status # "active" ELSE TRUE
           own == p \in Products /\ ProductRows[p].seller_id = u
       IN ((unavailable \/ own) /\ CartUpdate(u, p, qty, operation)) =>
            /\ cartResp'.status = IF unavailable THEN 404 ELSE 403
            /\ cartResp'.error = IF unavailable THEN "Product is not available"
                                 ELSE "You cannot add your own product to cart"
            /\ cart_items' = cart_items]_vars

\* A cart update was answered 404 for a product that is no longer active
\* while a buyer holds a line of such a product.
C20_Witness ==
  /\ cartResp = CartError(404, "Product is not available")
  /\ \E c \in cart_items : products[c.product_id].status # "active"

\* C21: a remove of qty on a line of an active product the caller does not
\* sell: with no stored line it is answered 404 'Item not found in cart',
\* with qty above the line's quantity c it is answered 400 with current_qty
\* = c, and neither changes the cart; with qty < c the line is stored with
\* c - qty; with qty = c the line is deleted and qty 0 is reported.
C21_RemoveFromLine ==
  [][\A u \in CartUsers, p \in Products, qty \in 1..MaxQty :
       LET lines == {c \in cart_items : c.user_id = u /\ c.product_id = p}
           others == cart_items \ lines
       IN (products[p].status = "active" /\ ProductRows[p].seller_id # u
             /\ CartUpdate(u, p, qty, "remove")) =>
            IF lines = {}
            THEN /\ cartResp' = CartError(404, "Item not found in cart")
                 /\ cart_items' = cart_items
            ELSE \A line \in lines :
                   IF qty > line.qty
                   THEN /\ cartResp'.status = 400
                        /\ cartResp'.current_qty = {line.qty}
                        /\ cart_items' = cart_items
                   ELSE IF qty < line.qty
                   THEN /\ cartResp'.status = 200
                        /\ cartResp'.qty = {line.qty - qty}
                        /\ cart_items' = others \cup
                             {[user_id |-> u, product_id |-> p, qty |-> line.qty - qty]}
                   ELSE /\ cartResp'.status = 200
                        /\ cartResp'.qty = {0}
                        /\ cart_items' = others]_vars

\* A remove of more than the line holds was refused with the line's quantity.
C21_Witness ==
  /\ cartResp.status = 400
  /\ cartResp.error = "Cannot remove more than currently in cart"
  /\ cartResp.current_qty = {1}
  /\ \E c \in cart_items : c.qty = 1

\* The (user, product) pairs whose cart line differs between two cart tables.
ChangedLines(before, after) ==
  {<<c.user_id, c.product_id>> : c \in (before \ after) \cup (after \ before)}

\* C22: a cart update by user u for product p (in Spec, the steps that leave
\* every place-order request where it is) changes no inventory record, no
\* order and no order item, and the only cart line it can change is (u, p).
C22_CartUpdateFrame ==
  [][po' = po =>
       /\ inventory' = inventory
       /\ orders' = orders
       /\ order_items' = order_items
       /\ cart_items' # cart_items =>
            \E u \in Buyers, p \in Products :
              /\ ChangedLines(cart_items, cart_items') = {<<u, p>>}
              /\ \E qty \in 1..MaxQty, operation \in Operations :
                   CartUpdate(u, p, qty, operation)]_vars

\* A cart update was accepted while both buyers hold lines, one of them for
\* both products, and an order had already taken stock.
C22_Witness ==
  /\ cartResp.status = 200
  /\ \E c \in cart_items : c.user_id = "u2"
  /\ \A p \in Products : \E c \in cart_items : c.user_id = "u1" /\ c.product_id = p
  /\ order_items # {}

(***************************************************************************)
(* Properties of place-order's checks (specifications Spec and SpecRace).  *)
(* A step that changes po[r] from pc = "idle" is the read of request r.    *)
(***************************************************************************)
\* C13: a place-order that reads an empty cart is answered 400 'Cart is
\* empty', writes no order, order item, inventory or cart row and sends no
\* notification.
C13_EmptyCartRejected ==
  [][\A r \in Requests :
       (po[r].pc = "idle" /\ po'[r] # po[r] /\ CartRead(RequestUser(r)) = {}) =>
         /\ po'[r].resp = Resp(400, "Cart is empty")
         /\ po'[r].pc = "idle"
         /\ UNCHANGED <<orders, order_items, inventory, cart_items, notifications>>]_vars

\* The buyer placed an order and the next request found the cart empty.
C13_Witness ==
  /\ po["r1"].resp = Resp(400, "Cart is empty")
  /\ \E o \in orders : o.user_id = RequestUser("r1")

\* C14: when the place-order read finds a cart line with qty > stock -
\* reserved, the request is answered 400 with the product id and the
\* available count of such a line and ends there: no order, order item,
\* stock decrement or cart deletion for any line.
C14_ShortLineRejectsAll ==
  [][\A r \in Requests :
       LET short == {c \in CartRead(RequestUser(r)) : c.qty > c.stock - c.reserved}
       IN (po[r].pc = "idle" /\ po'[r] # po[r] /\ short # {}) =>
            /\ po'[r].resp.status = 400
            /\ po'[r].resp.error = "Insufficient stock"
            /\ \E c \in short : /\ po'[r].resp.product_id = c.product_id
                                 /\ po'[r].resp.available = c.stock - c.reserved
            /\ po'[r].pc = "idle"
            /\ UNCHANGED <<orders, order_items, inventory, cart_items>>]_vars

\* The second buyer, with lines of p1 and p2, was refused for p1 after the
\* first buyer's order took the last unit; p2 is still in stock and in the cart.
C14_Witness ==
  /\ po["r2"].resp.error = "Insufficient stock"
  /\ po["r2"].resp.product_id = "p1"
  /\ po["r2"].resp.available = 0
  /\ inventory["p2"].stock = 1
  /\ [user_id |-> "u2", product_id |-> "p2", qty |-> 1] \in cart_items

\* C15: a place-order whose cart passes the stock validation is answered 400
\* and writes nothing when the shipping address is not the caller's, when no
\* active shipping method has the given id, or when the method's zone is not
\* the uppercased country of the address.
C15_AddressAndMethodValidated ==
  [][\A r \in Requests, a \in AddressIds, m \in MethodIds :
       LET u == RequestUser(r)
           lines == CartRead(u)
           invalid ==
             \/ \A x \in Addresses : ~(x.id = a /\ x.user_id = u)
             \/ \A i \in 1..Len(ShippingMethods) :
                  ~(ShippingMethods[i].id = m /\ ShippingMethods[i].active = 1)
             \/ \E x \in Addresses, i \in 1..Len(ShippingMethods) :
                  /\ x.id = a
                  /\ ShippingMethods[i].id = m
                  /\ ShippingMethods[i].zone # ZoneOf(x.country)
       IN (/\ po[r].resp = NoResp
           /\ lines # {}
           /\ \A c \in lines : c.qty <= c.stock - c.reserved
           /\ invalid
           /\ \E b \in {""} \cup AddressIds, altOk \in BOOLEAN : PO_Read(r, a, m, b, altOk)) =>
            /\ po'[r].resp.status = 400
            /\ po'[r].resp.error \in {"Shipping address not found",
                                      "Invalid or inactive shipping method",
                                      "Shipping method zone does not match"}
            /\ po'[r].pc = "idle"
            /\ UNCHANGED <<orders, order_items, inventory, cart_items>>]_vars

\* One request was refused for another user's address, the other for a
\* method that no active row has.
C15_Witness ==
  /\ po["r1"].resp = Resp(400, "Shipping address not found")
  /\ po["r2"].resp = Resp(400, "Invalid or inactive shipping method")

\* C23: a place-order request is answered 200 only after its cart clear,
\* and the cart clear of a request of user u deletes every cart line of u
\* and leaves the lines of every other user as they are.
C23_SuccessClearsOwnCart ==
  [][\A r \in Requests :
       /\ (po'[r].resp.status = 200 /\ po'[r] # po[r]) => po[r].pc = "respond"
       /\ po'[r].pc = "respond" => po[r].pc \in {"clear_cart", "respond"}
       /\ (po[r].pc = "clear_cart" /\ po'[r].pc = "respond") =>
            /\ \A c \in cart_items' : c.user_id # po[r].user_id
            /\ \A c \in cart_items : c.user_id # po[r].user_id => c \in cart_items']_vars

\* The first buyer's request was answered 200, that buyer's cart is empty
\* and the second buyer still holds lines.
C23_Witness ==
  /\ po["r1"].resp.status = 200
  /\ \A c \in cart_items : c.user_id # "u1"
  /\ \E c \in cart_items : c.user_id = "u2"

(***************************************************************************)
(* Properties of the commit under failures (specification SpecRace, where  *)
(* each product starts with one unit and only place-order writes stock).   *)
(***************************************************************************)
RECURSIVE SumQty(_)
SumQty(S) ==
  IF S = {} THEN 0
  ELSE LET i == CHOOSE x \in S : TRUE
       IN i.qty + SumQty(S \ {i})

\* C16: the units place-order has taken from a product's stock never exceed
\* the quantities of the order items of that product whose order row
\* exists, also after a request failed between two commit statements.
C16_DecrementsHaveOrderRow ==
  \A p \in Products :
    1 - inventory[p].stock
      <= SumQty({i \in order_items :
                   i.product_id = p /\ \E o \in orders : o.id = i.order_id})

\* The first request failed after its stock decrement and before its cart
\* clear; the second has not started.
C16_Witness ==
  /\ po["r1"].resp.status = 500
  /\ po["r2"] = IdleRequest
  /\ inventory["p1"].stock = 0
  /\ \E o \in orders : o.id = po["r1"].orderId
  /\ \E c \in cart_items : c.user_id = "u1"

(***************************************************************************)
(* Properties of the notifications (specification SpecNotify).  A step     *)
(* that changes po[r] from pc = "respond" is the dispatch and response of  *)
(* request r.                                                              *)
(***************************************************************************)
\* C17: once the commit of a place-order is complete, whatever the realtime
\* fetch and the log call do (fulfilled, rejected, thrown, binding missing),
\* the request is answered 200 for its order and no order, order item,
\* inventory or cart row changes.
C17_DispatchFailureKeepsCommit ==
  [][\A r \in Requests :
       (po[r].pc = "respond" /\ po'[r] # po[r]) =>
         /\ po'[r].resp = Resp(200, "")
         /\ po'[r].orderId = po[r].orderId
         /\ UNCHANGED <<orders, order_items, inventory, cart_items>>]_vars

\* With the binding configured, the first request was answered 200 and its
\* order is stored, but nothing was handed to the realtime service for it.
C17_Witness ==
  /\ env.REALTIME_SERVICE
  /\ po["r1"].resp.status = 200
  /\ \E o \in orders : o.id = po["r1"].orderId
  /\ \A n \in BagToSet(notifications) : n.order_id # po["r1"].orderId

\* C18: every step that answers a place-order with its order, and every
\* step that changes the status of an order, adds exactly one notification
\* with the buyer's user id, the order id and the new status.
C18_OneNotificationPerEvent ==
  [][/\ \A r \in Requests :
          (po[r].pc = "respond" /\ po'[r].resp.status = 200) =>
            notifications' = notifications (+)
              SetToBag({[user_id |-> po[r].user_id, order_id |-> po[r].orderId,
                         status |-> "placed"]})
     /\ \A o \in orders, o2 \in orders' :
          (o2.id = o.id /\ o2.status # o.status) =>
            notifications' = notifications (+)
              SetToBag({[user_id |-> o.user_id, order_id |-> o.id,
                         status |-> o2.status]})]_vars

\* C19: a notification is added only by a request whose order row, order
\* items, stock decrements and cart clear are all done, it has status
\* 'placed' for that request's order and buyer, and it is the only copy.
C19_PlacedAfterCommitOnce ==
  [][\A n \in BagToSet(notifications') :
       CopiesIn(n, notifications') > CopiesIn(n, notifications) =>
         /\ n.status = "placed"
         /\ CopiesIn(n, notifications') = 1
         /\ \E r \in Requests :
              /\ po[r].pc = "respond"
              /\ po[r].orderId = n.order_id
              /\ po[r].user_id = n.user_id
              /\ \E o \in orders : o.id = n.order_id /\ o.user_id = n.user_id
              /\ \A k \in 1..Len(po[r].items) :
                   [order_id |-> n.order_id,
                    product_id |-> po[r].items[k].product_id,
                    title_snapshot |-> po[r].items[k].title,
                    price_cents |-> po[r].items[k].price_cents,
                    qty |-> po[r].items[k].qty] \in order_items
              /\ po[r].k = Len(po[r].items) + 1
              /\ \A c \in cart_items : c.user_id # n.user_id]_vars

\* Both requests were answered 200 and each order has its notification.
C19_Witness ==
  /\ \A r \in Requests :
       /\ po[r].resp.status = 200
       /\ CopiesIn([user_id |-> RequestUser(r), order_id |-> po[r].orderId,
                    status |-> "placed"], notifications) = 1
  /\ po["r1"].orderId # po["r2"].orderId

(***************************************************************************)
(* Properties of orders beside the seller routes (specification            *)
(* SpecSeller).                                                            *)
(***************************************************************************)

\* C24: place-order commits an order item only for a product whose status
\* is 'active' at the place-order read: a read that proceeds to the commit
\* carries only items whose product is active in the state it read.
C24_OnlyActiveProductsOrdered ==
  [][\A r \in Requests :
       (po[r].pc = "idle" /\ po'[r].pc = "insert_order") =>
         \A k \in 1..Len(po'[r].items) :
           products[po'[r].items[k].product_id].status = "active"]_vars

ItemsOfSeller(order_id, seller_id) ==
  {i \in order_items : i.order_id = order_id /\ ProductRows[i.product_id].seller_id = seller_id}

\* C26: an order-status request of a buyer is answered 403 and changes no
\* order; one of a seller without an item in the order changes no order and,
\* when its body passes the schema, is answered 403; and a request of a
\* seller that changes an order is of a seller with an item in that order.
C26_SellerNeedsItemInOrder ==
  [][\A caller \in SellerCallers, status \in StatusesSent :
       SellerOrderStatus(caller, 1, status) =>
         /\ Role(caller) = "buyer" =>
              sellerResp'.status = 403 /\ orders' = orders
         /\ (Role(caller) = "seller" /\ ItemsOfSeller(1, caller) = {}) =>
              /\ orders' = orders
              /\ status \in OrderStatuses => sellerResp'.status = 403
         /\ (Role(caller) = "seller" /\ orders' # orders) =>
              ItemsOfSeller(1, caller) # {}]_vars

\* The seller of the ordered product changed the status of order 1, and
\* then a request about it by a seller without an item in it was refused.
C26_Witness ==
  /\ \E o \in orders : o.id = 1 /\ o.status = "processing"
  /\ ItemsOfSeller(1, "s1") # {} /\ ItemsOfSeller(1, "s2") = {}
  /\ sellerResp = SellerResp(403, "You are not a seller on this order")

\* C27: no step changes or deletes an order item, and no step deletes an
\* order or changes its subtotal, shipping, tax or total: product updates,
\* product status changes, stock updates, soft-delete and order-status
\* updates leave them as they were created.
C27_OrderSnapshotImmutable ==
  [][/\ order_items \subseteq order_items'
     /\ \A o \in orders : \E q \in orders' :
          /\ q.id = o.id
          /\ q.subtotal_cents = o.subtotal_cents
          /\ q.shipping_cents = o.shipping_cents
          /\ q.tax_cents = o.tax_cents
          /\ q.total_cents = o.total_cents]_vars

\* An order item that keeps the title and price of the commit after the
\* product was renamed, repriced and soft-deleted, its stock was changed and
\* the order was cancelled.
C27_Witness ==
  /\ \E i \in order_items :
       /\ i.title_snapshot = "t1" /\ i.price_cents = 500
       /\ products[i.product_id] = [status |-> "deleted", title |-> "t1b", price_cents |-> 700]
       /\ inventory[i.product_id].stock = 1
  /\ \E o \in orders : o.status = "cancelled" /\ o.subtotal_cents = 500

(***************************************************************************)
(* Properties of the inventory (specification SpecInventory).              *)
(***************************************************************************)

\* C29: no step changes the reserved count of an inventory record, and
\* in every reachable state every record has reserved = 0, so that the
\* available quantity the handlers compute, stock - reserved, is the stock.
C29_ReservedStaysZero ==
  /\ [](\A p \in Products :
         /\ inventory[p].reserved = 0
         /\ inventory[p].stock - inventory[p].reserved = inventory[p].stock)
  /\ [][\A p \in Products : inventory'[p].reserved = inventory[p].reserved]_vars

\* An order was committed from the stock of p1, p1 was soft-deleted and
\* the seller then wrote a stock of one.
C29_Witness ==
  /\ \E i \in order_items : i.product_id = "p1"
  /\ products["p1"].status = "deleted" /\ sd.pc = "idle" /\ so.pc = "idle"
  /\ inventory["p1"] = [stock |-> 1, reserved |-> 0]

(***************************************************************************)
(* Properties of the address book (specification SpecAddress).             *)
(***************************************************************************)

\* C28: in every reachable state each user has at most one address flagged
\* default-shipping and at most one flagged default-billing.
C28_AtMostOneDefault ==
  \A u \in {a.user_id : a \in addresses} :
    /\ Cardinality({a \in addresses : a.user_id = u /\ a.is_default_shipping = 1}) <= 1
    /\ Cardinality({a \in addresses : a.user_id = u /\ a.is_default_billing = 1}) <= 1

(***************************************************************************)
(* Properties of the session check (specification SpecAuth).               *)
(***************************************************************************)

\* The cookie names a session row that is not revoked and not expired at now.
ValidSession(sid, now) ==
  \E s \in Sessions : s.id = sid /\ s.revoked = 0 /\ s.expires_at > now

\* No product, inventory, cart or order row is written.
RowsUnchanged ==
  UNCHANGED <<products, inventory, cart_items, orders, order_items, nextOrderId>>

\* C30: a cart read, cart update, checkout summary or place-order request
\* whose cookie names no session that exists, is not revoked and is not
\* expired is answered 401 and writes no cart, inventory or order row.
C30_NoSessionRejected ==
  [][\A sid \in Cookies, now \in Times :
       ~ValidSession(sid, now) =>
         /\ CartGetRequest(sid, now) => (cartResp'.status = 401 /\ RowsUnchanged)
         /\ \A operation \in Operations :
              CartItemsRequest(sid, now, "p1", 1, operation) =>
                (cartResp'.status = 401 /\ RowsUnchanged)
         /\ SummaryRequest(sid, now) => (qpc' = "unauthenticated" /\ RowsUnchanged)
         /\ PlaceOrderRequest("r1", sid, now, OwnAddressId("u1"), "standard-IN", "", TRUE) =>
              (po'["r1"].resp.status = 401 /\ po'["r1"].pc = "idle" /\ RowsUnchanged)]_vars

\* With a line in the cart and an order placed, a cart request, the summary
\* and a place-order request were each answered 401.
C30_Witness ==
  /\ cartResp = CartError(401, "Not authenticated")
  /\ qpc = "unauthenticated"
  /\ po["r1"].resp = Resp(401, "Not authenticated")
  /\ cart_items # {} /\ orders # {}

(***************************************************************************)
(* Properties of failures (specification SpecFail).                        *)
(***************************************************************************)

\* The texts that carry the message of a storage error: the message itself
\* and its String(err).
RawErrorTexts ==
  {e.message : e \in StorageErrors} \cup {StringOfError(e) : e \in StorageErrors}

\* C31: a 500 response of the cart update or of place-order never carries
\* the raw text of the storage error that caused it.
C31_NoRawErrorText ==
  /\ cartResp.status = 500 => cartResp.error \notin RawErrorTexts
  /\ \A r \in Requests : po[r].resp.status = 500 => po[r].resp.error \notin RawErrorTexts

(***************************************************************************)
(* Properties of a double submit (specification SpecDouble).               *)
(***************************************************************************)

\* C32: two place-order requests of one user over the same cart create at
\* most one order: in every reachable state the buyer has at most one
\* order, and the stock of each product, two at first with one unit in the
\* cart, is at least one.
C32_DoubleSubmitOneOrder ==
  /\ Cardinality({o \in orders : o.user_id = "u1"}) <= 1
  /\ \A p \in Products : inventory[p].stock >= 1

(***************************************************************************)
(* Properties of the cart clear beside cart updates (specification Spec).  *)
(***************************************************************************)

\* C33: every cart line the cart clear of place-order deletes is in the
\* order of that request as an order item with the same product and
\* quantity.
C33_ClearedLinesWereOrdered ==
  [][\A r \in Requests :
       (po[r].pc = "clear_cart" /\ po'[r].pc = "respond") =>
         \A c \in cart_items \ cart_items' :
           \E i \in order_items :
             /\ i.order_id = po[r].orderId
             /\ i.product_id = c.product_id
             /\ i.qty = c.qty]_vars

(***************************************************************************)
(* Properties of seller stock updates beside checkouts (specification      *)
(* SpecLost, where every stock request is an add of one unit).             *)
(***************************************************************************)

\* C34: no stock update is lost: the write of a seller's add of one unit
\* leaves the stock one above the stock it replaces, so that the decrements
\* of the orders committed since its read are kept.
C34_NoLostStockUpdate ==
  [][(so.pc = "write" /\ so'.pc = "idle") =>
       inventory'[so.product_id].stock = inventory[so.product_id].stock + 1]_vars

(***************************************************************************)
(* Properties of the addresses of an order (specification SpecRace, where  *)
(* the requests carry any address ids).                                    *)
(***************************************************************************)

\* C35: the shipping address and the billing address of every stored order
\* are addresses of the order's buyer.
C35_OrderAddressesOwned ==
  \A o \in orders :
    /\ \E a \in Addresses : a.id = o.shipping_address_id /\ a.user_id = o.user_id
    /\ \E a \in Addresses : a.id = o.billing_address_id /\ a.user_id = o.user_id

\* The sockets of a user that connected and have neither closed nor errored.
LiveSockets(u) == {w \in SocketIds : sockets[w].status = "open" /\ sockets[w].user_id = u}

\* C36: after any sequence of connect, close and error events the registry
\* maps each user to exactly the sockets of that user that connected and
\* neither closed nor errored, each held once, and no user is mapped to an
\* empty set.
C36_RegistryIsLiveSockets ==
  /\ \A u \in DOMAIN userSockets : Len(userSockets[u]) > 0
  /\ \A u \in Buyers :
       LET set == SocketsOf(userSockets, u)
       IN /\ {set[i] : i \in 1..Len(set)} = LiveSockets(u)
          /\ Len(set) = Cardinality(LiveSockets(u))

C36_Witness ==
  /\ "u2" \notin DOMAIN userSockets
  /\ \E w \in SocketIds : sockets[w] = [status |-> "errored", user_id |-> "u2"]
  /\ \E w \in SocketIds : sockets[w] = [status |-> "closed", user_id |-> "u1"]
  /\ \E w \in SocketIds : sockets[w] = [status |-> "open", user_id |-> "u1"]

\* C37: an order-status broadcast for a user sends only to sockets that are
\* registered under that user when it runs, none of another user and none
\* removed by close or error; for a user without registered socket nothing
\* is sent and the endpoint answers ok.
C37_BroadcastOnlyToOwnSockets ==
  [][\A u \in Buyers, failing \in SUBSET SocketIds :
       InternalOrderStatus({u}, {1}, {"shipped"}, failing) =>
         /\ wsResp'.sent \subseteq LiveSockets(u)
         /\ \A d \in deliveries' \ deliveries : d.user_id = u /\ d.ws \in LiveSockets(u)
         /\ u \notin DOMAIN userSockets =>
              deliveries' = deliveries /\ wsResp'.sent = {} /\ wsResp'.ok]_vars

C37_Witness ==
  /\ wsResp.ok
  /\ \E d \in deliveries :
       /\ d.user_id = "u1"
       /\ wsResp.sent = {d.ws}
       /\ \E w \in SocketIds : sockets[w] = [status |-> "open", user_id |-> "u2"]
       /\ \E w \in SocketIds : sockets[w] = [status |-> "closed", user_id |-> "u1"]

\* C38: a send that throws is ignored: the broadcast attempts every socket
\* registered under the user and the endpoint answers ok.
C38_SendFailuresIgnored ==
  [][\A u \in Buyers, failing \in SUBSET SocketIds :
       InternalOrderStatus({u}, {1}, {"shipped"}, failing) =>
         /\ wsResp'.attempted = LiveSockets(u)
         /\ wsResp'.ok]_vars

\* C39: once a product mutation and its cache invalidation have completed
\* (no mutation in flight, no delete waiting), every cache entry is what a
\* read of the rows gives now, so no read is answered pre-mutation data
\* from the cache.
C39_NoStaleCacheEntry ==
  (so.pc = "idle" /\ sd.pc = "idle" /\ \A t \in tasks : t.op # "delete") =>
    \A key \in DOMAIN PRODUCT_CACHE.kv : PRODUCT_CACHE.kv[key] = RowsFor(key, "p1")

\* C40: a profile update whose body has no role field leaves the role of
\* the user as it was.
C40_RoleKeptWithoutRoleField ==
  [][\A u \in UserIds, body \in UserBodies :
       (body.role = {} /\ UserUpdate({u}, body)) => users'[u].role = users[u].role]_vars

====
